---------------------------- MODULE Spec2Model ----------------------------
(***************************************************************************)
(* A model of the TV-guide loader of src/server.py: Program and its        *)
(* derived fields, TVGuideLoader (load_tv_guide, parse_xml_guide,          *)
(* parse_xmltv_time, generate_fallback_programs).                          *)
(*                                                                         *)
(* Encodings.                                                              *)
(*  - A Python str is a tuple of one-character strings; the alphabet of    *)
(*    the inputs is the digits, "+", "-", " " and a few letters.           *)
(*  - An Optional[str] (an XML attribute or element text that may be       *)
(*    None) is [some |-> FALSE] or [some |-> TRUE, s |-> <<chars>>].       *)
(*  - A datetime whose tzinfo is TZ (Australia/Sydney) is the record       *)
(*    [wall |-> seconds of its local fields counted from                   *)
(*    1970-01-01T00:00:00, off |-> its utcoffset() in seconds].  Every     *)
(*    datetime of the program carries the same tzinfo object TZ, so        *)
(*    Python compares and subtracts them by their local fields: by wall.   *)
(*  - The text of a title, description or category is a tuple of the      *)
(*    pieces it is concatenated from (<<"News">>, <<>> for "").            *)
(*  - An Optional[datetime] is [ok |-> FALSE] or [ok |-> TRUE, wall, off]. *)
(*  - The loader's clock (datetime.now(TZ)) is counted in minutes of its   *)
(*    local fields.                                                        *)
(***************************************************************************)
EXTENDS Integers, Sequences, FiniteSets, TLC

----------------------------------------------------------------------------
(* Python str helpers *)

Min2(a, b) == IF a <= b THEN a ELSE b

Max2(a, b) == IF a >= b THEN a ELSE b

\* s[a:b] for 0 <= a, 0 <= b (Python slices clamp to the length)
Slice(s, a, b) == SubSeq(s, a + 1, Min2(b, Len(s)))

\* s[a:]
SliceFrom(s, a) == SubSeq(s, a + 1, Len(s))

\* s[-n:]
LastN(s, n) == SubSeq(s, Max2(1, Len(s) - n + 1), Len(s))

\* c in s
HasChar(s, c) == \E i \in 1..Len(s) : s[i] = c

DigitChars == <<"0", "1", "2", "3", "4", "5", "6", "7", "8", "9">>

IsDigit(c) == \E i \in 1..10 : DigitChars[i] = c

DigitVal(c) == (CHOOSE i \in 1..10 : DigitChars[i] = c) - 1

AllDigits(s) == \A i \in 1..Len(s) : IsDigit(s[i])

RECURSIVE DecVal(_)
DecVal(s) == IF Len(s) = 0 THEN 0
             ELSE 10 * DecVal(SubSeq(s, 1, Len(s) - 1)) + DigitVal(s[Len(s)])

RECURSIVE LStrip(_)
LStrip(s) == IF Len(s) > 0 /\ s[1] = " " THEN LStrip(Tail(s)) ELSE s

RECURSIVE RStrip(_)
RStrip(s) == IF Len(s) > 0 /\ s[Len(s)] = " "
             THEN RStrip(SubSeq(s, 1, Len(s) - 1)) ELSE s

\* int(s) for a str s: surrounding whitespace is stripped, one sign is
\* allowed, then at least one digit.  [ok |-> FALSE] is ValueError.
IntOfDigits(negative, body) ==
    IF Len(body) > 0 /\ AllDigits(body)
    THEN [ok |-> TRUE, val |-> IF negative THEN 0 - DecVal(body) ELSE DecVal(body)]
    ELSE [ok |-> FALSE]

IntOfStripped(t) ==
    IF Len(t) > 0 /\ t[1] \in {"+", "-"} THEN IntOfDigits(t[1] = "-", Tail(t))
    ELSE IntOfDigits(FALSE, t)

IntOfStr(s) == IntOfStripped(RStrip(LStrip(s)))

----------------------------------------------------------------------------
(* datetime: the proleptic Gregorian calendar and the Sydney zone *)

IsLeap(y) == (y % 4 = 0 /\ y % 100 # 0) \/ y % 400 = 0

DaysInMonth(y, m) ==
    IF m = 2 THEN (IF IsLeap(y) THEN 29 ELSE 28)
    ELSE IF m \in {4, 6, 9, 11} THEN 30 ELSE 31

\* days from 1970-01-01 to y-m-d
\* (the year counted from March, its 400-year era, the year of the era,
\* the day of the year)
DaysFromEra(era, yoe, doy) ==
    era * 146097 + (yoe * 365 + yoe \div 4 - yoe \div 100 + doy) - 719468

DaysFromMarchYear(yy, mp, d) ==
    DaysFromEra(yy \div 400, yy % 400, (153 * mp + 2) \div 5 + d - 1)

DaysFromCivil(y, m, d) ==
    DaysFromMarchYear(IF m <= 2 THEN y - 1 ELSE y, IF m > 2 THEN m - 3 ELSE m + 9, d)

\* the local fields of a naive datetime, as seconds from 1970-01-01T00:00:00
NaiveSecs(y, m, d, H, M, S) ==
    DaysFromCivil(y, m, d) * 86400 + H * 3600 + M * 60 + S

\* 0 = Sunday ... 6 = Saturday (1970-01-01 was a Thursday)
WeekdayOfDays(n) == (n + 4) % 7

\* the first Sunday of month m of year y, in days from 1970-01-01
SundayOnOrAfter(d1) == d1 + ((7 - WeekdayOfDays(d1)) % 7)

FirstSunday(y, m) == SundayOnOrAfter(DaysFromCivil(y, m, 1))

YearFrom(y0, n) ==
    CHOOSE y \in y0..(y0 + 1) :
        DaysFromCivil(y, 1, 1) <= n /\ n < DaysFromCivil(y + 1, 1, 1)

\* the year of the day n (days from 1970-01-01)
YearOfDays(n) == YearFrom(1970 + n \div 366, n)

StdOffset == 36000

DstOffset == 39600

\* Australia/Sydney (rules in force since 2008): daylight time from the
\* first Sunday of October 02:00 standard time to the first Sunday of
\* April 03:00 daylight time.  utcoffset of the instant u (UTC seconds).
OffsetBetween(t, dend, dbeg) == IF t < dend \/ t >= dbeg THEN DstOffset ELSE StdOffset

SydneyOffsetInYear(u, y) ==
    OffsetBetween(u, FirstSunday(y, 4) * 86400 + 3 * 3600 - DstOffset,
                     FirstSunday(y, 10) * 86400 + 2 * 3600 - StdOffset)

SydneyOffsetAtUtc(u) == SydneyOffsetInYear(u, YearOfDays(u \div 86400))

\* utcoffset of the local fields w read with fold = 0 (dt.replace(tzinfo=TZ)):
\* the repeated hour is daylight time, the skipped hour is standard time.
SydneyWallOffsetInYear(w, y) ==
    OffsetBetween(w, FirstSunday(y, 4) * 86400 + 3 * 3600,
                     FirstSunday(y, 10) * 86400 + 3 * 3600)

SydneyOffsetAtWall(w) == SydneyWallOffsetInYear(w, YearOfDays(w \div 86400))

\* the datetime of zone TZ at the instant u (UTC seconds), its offset being off
AtUtc(u, off) == [ok |-> TRUE, wall |-> u + off, off |-> off]

\* dt.replace(tzinfo=timezone(offset)).astimezone(TZ)
AsTimezoneTZ(naive, offset) == AtUtc(naive - offset, SydneyOffsetAtUtc(naive - offset))

\* dt.replace(tzinfo=TZ)
ReplaceTZ(naive) == [ok |-> TRUE, wall |-> naive, off |-> SydneyOffsetAtWall(naive)]

NoTime == [ok |-> FALSE]

----------------------------------------------------------------------------
(* datetime.strptime(s, '%Y%m%d%H%M%S') *)

\* The format compiles to the regular expression
\*   (\d\d\d\d)(1[0-2]|0[1-9]|[1-9])(3[0-1]|[1-2]\d|0[1-9]|[1-9]| [1-9])
\*   (2[0-3]|[0-1]\d|\d)([0-5]\d|\d)(6[0-1]|[0-5]\d|\d)
\* matched at the start of s.  GroupAlts(s, g, p) is the sequence of the
\* lengths group g can take at position p (1-based), in the order the
\* alternatives are tried.
TwoDigitsAt(s, p) == p + 1 <= Len(s) /\ IsDigit(s[p]) /\ IsDigit(s[p + 1])

TwoAt(s, p) == 10 * DigitVal(s[p]) + DigitVal(s[p + 1])

OneAlt(cond, n) == IF cond THEN <<n>> ELSE <<>>

GroupAlts(s, g, p) ==
    IF p > Len(s) THEN <<>>
    ELSE IF g = 1 THEN
        OneAlt(p + 3 <= Len(s) /\ AllDigits(SubSeq(s, p, p + 3)), 4)
    ELSE IF g = 2 THEN
        OneAlt(TwoDigitsAt(s, p) /\ TwoAt(s, p) \in 1..12, 2)
        \o OneAlt(IsDigit(s[p]) /\ DigitVal(s[p]) >= 1, 1)
    ELSE IF g = 3 THEN
        OneAlt(TwoDigitsAt(s, p) /\ TwoAt(s, p) \in 1..31, 2)
        \o OneAlt(IsDigit(s[p]) /\ DigitVal(s[p]) >= 1, 1)
        \o OneAlt(s[p] = " " /\ p + 1 <= Len(s) /\ IsDigit(s[p + 1])
                  /\ DigitVal(s[p + 1]) >= 1, 2)
    ELSE IF g = 4 THEN
        OneAlt(TwoDigitsAt(s, p) /\ TwoAt(s, p) \in 0..23, 2)
        \o OneAlt(IsDigit(s[p]), 1)
    ELSE IF g = 5 THEN
        OneAlt(TwoDigitsAt(s, p) /\ TwoAt(s, p) \in 0..59, 2)
        \o OneAlt(IsDigit(s[p]), 1)
    ELSE
        OneAlt(TwoDigitsAt(s, p) /\ TwoAt(s, p) \in 0..61, 2)
        \o OneAlt(IsDigit(s[p]), 1)

\* The first match of groups g..6 from position p, by backtracking in
\* alternative order: the lengths of the groups, or <<>> when none matches.
RECURSIVE MatchFrom(_, _, _)
RECURSIVE TryAlts(_, _, _, _)
RestOrNext(s, g, p, alts, rest) ==
    IF Len(rest) > 0 THEN <<alts[1]>> \o rest ELSE TryAlts(s, g, p, Tail(alts))

TryAlts(s, g, p, alts) ==
    IF Len(alts) = 0 THEN <<>>
    ELSE IF g = 6 THEN <<alts[1]>>
    ELSE RestOrNext(s, g, p, alts, MatchFrom(s, g + 1, p + alts[1]))

MatchFrom(s, g, p) == TryAlts(s, g, p, GroupAlts(s, g, p))

SumSeq(q) == IF Len(q) = 0 THEN 0 ELSE q[1] + q[2] + q[3] + q[4] + q[5] + q[6]

\* the naive datetime, or [ok |-> FALSE] for ValueError: no match,
\* unconverted data remaining, or fields datetime() rejects
\* datetime(y, m, d, H, M, S): the regular expression bounds m, d, H and M
MakeDatetime(y, m, d, H, M, S) ==
    IF y < 1 \/ d > DaysInMonth(y, m) \/ S > 59 THEN [ok |-> FALSE]
    ELSE [ok |-> TRUE, naive |-> NaiveSecs(y, m, d, H, M, S)]

\* int() of the group that starts at position a (1-based) and has n characters
GroupInt(s, a, n) == IntOfStr(SubSeq(s, a, a + n - 1)).val

StrptimeGroups(s, lens) ==
    IF Len(lens) = 0 \/ SumSeq(lens) # Len(s) THEN [ok |-> FALSE]
    ELSE MakeDatetime(GroupInt(s, 1, lens[1]),
                      GroupInt(s, 1 + lens[1], lens[2]),
                      GroupInt(s, 1 + lens[1] + lens[2], lens[3]),
                      GroupInt(s, 1 + lens[1] + lens[2] + lens[3], lens[4]),
                      GroupInt(s, 1 + lens[1] + lens[2] + lens[3] + lens[4], lens[5]),
                      GroupInt(s, 1 + lens[1] + lens[2] + lens[3] + lens[4] + lens[5],
                               lens[6]))

Strptime(s) == StrptimeGroups(s, MatchFrom(s, 1, 1))

----------------------------------------------------------------------------
(* TVGuideLoader.parse_xmltv_time *)

SomeStr(s) == [some |-> TRUE, s |-> s]

NoStr == [some |-> FALSE]

\* the offset branch shared by the two layouts (lines 194-203 and 210-216):
\* strptime, then sign, hours and minutes of tz_str, timezone(offset)
\* (which rejects offsets of 24 hours or more), astimezone(TZ)
WithOffset(naive, offset) ==
    IF offset <= -86400 \/ offset >= 86400 THEN NoTime
    ELSE AsTimezoneTZ(naive, offset)

OffsetDatetime(dt, sign, hours, mins) ==
    IF ~dt.ok \/ ~hours.ok \/ ~mins.ok THEN NoTime
    ELSE WithOffset(dt.naive, sign * hours.val * 3600 + sign * mins.val * 60)

ParseWithOffset(dt_str, tz_str) ==
    OffsetDatetime(Strptime(dt_str),
                   IF tz_str[1] = "+" THEN 1 ELSE -1,
                   IntOfStr(Slice(tz_str, 1, 3)),
                   IF Len(tz_str) >= 5 THEN IntOfStr(Slice(tz_str, 3, 5))
                   ELSE [ok |-> TRUE, val |-> 0])

\* the index (0-based) of the first " " of s
FirstSpace(s) == (CHOOSE i \in 1..Len(s) : s[i] = " " /\ \A j \in 1..(i - 1) : s[j] # " ") - 1

\* the largest index i (0-based) in len-1 .. 1 with s[i] in '+-', or 0
MaxOrZero(hits) == IF hits = {} THEN 0 ELSE CHOOSE i \in hits : \A j \in hits : j <= i

LastSignIndex(s) == MaxOrZero({i \in 1..(Len(s) - 1) : s[i + 1] \in {"+", "-"}})

\* Lines 193-203: dt_str, tz_str = time_str.split(' ', 1).  Whether strptime
\* raises or tz_str carries no sign, the result is None.
ParseSpaceSeparated(dt_str, tz_str) ==
    IF Len(tz_str) > 0 /\ tz_str[1] \in {"+", "-"}
    THEN ParseWithOffset(dt_str, tz_str)
    ELSE NoTime

\* Lines 206-216: split at the last sign found from the end down to index 1
ParseConcatenated(s, i) ==
    IF i = 0 THEN NoTime ELSE ParseWithOffset(Slice(s, 0, i), SliceFrom(s, i))

\* Lines 219-220
ParseLocal(dt) == IF dt.ok THEN ReplaceTZ(dt.naive) ELSE NoTime

ParseTimeStr(s) ==
    IF HasChar(s, "+") \/ HasChar(LastN(s, 5), "-") THEN
        IF HasChar(s, " ")
        THEN ParseSpaceSeparated(Slice(s, 0, FirstSpace(s)), SliceFrom(s, FirstSpace(s) + 1))
        ELSE ParseConcatenated(s, LastSignIndex(s))
    ELSE ParseLocal(Strptime(Slice(s, 0, 14)))

parse_xmltv_time(time_str) ==
    IF ~time_str.some \/ Len(time_str.s) = 0 THEN NoTime
    ELSE ParseTimeStr(time_str.s)

----------------------------------------------------------------------------
(* Program *)

\* Program.__init__
Program(title, description, category, start, stop) ==
    [title |-> title, description |-> description, category |-> category,
     start |-> start, stop |-> stop]

\* a < b, a >= b, a - b on datetimes that share the tzinfo object TZ
DtLess(a, b) == a.wall < b.wall

DtDiffSeconds(a, b) == a.wall - b.wall

\* Program.is_live, with now the value datetime.now(TZ) returned
is_live(p, now) == ~DtLess(now, p.start) /\ DtLess(now, p.stop)

\* progress without the `elif now >= self.stop` test of lines 58-59
ProgressMutNoStopTest(p, now) ==
    IF DtLess(now, p.start) THEN [num |-> 0, den |-> 1]
    ELSE [num |-> DtDiffSeconds(now, p.start) * 100,
          den |-> DtDiffSeconds(p.stop, p.start)]

\* Program.progress, with now the value datetime.now(TZ) returned.  The
\* float is kept exact as the fraction num/den; den = 0 is the division
\* by zero of line 62.
progress(p, now) ==
    IF DtLess(now, p.start) THEN [num |-> 0, den |-> 1]
    ELSE IF ~DtLess(now, p.stop) THEN [num |-> 100, den |-> 1]
    ELSE [num |-> DtDiffSeconds(now, p.start) * 100,
          den |-> DtDiffSeconds(p.stop, p.start)]

\* int(x / 60) truncates toward zero
TruncDiv(a, b) == IF a >= 0 THEN a \div b ELSE 0 - ((0 - a) \div b)

\* Program.duration_minutes
duration_minutes(p) == TruncDiv(DtDiffSeconds(p.stop, p.start), 60)

----------------------------------------------------------------------------
(* TVGuideLoader.parse_xml_guide *)

\* An XML child element that may be absent: elem.find(tag) and its .text
NoElem == [present |-> FALSE]

Elem(text) == [present |-> TRUE, text |-> text]

\* elem.text if elem is not None else default
TextOr(elem, default) == IF elem.present THEN elem.text ELSE default

\* dict[k] = v
DictPut(d, k, v) == [x \in DOMAIN d \cup {k} |-> IF x = k THEN v ELSE d[x]]

EmptyDict == <<>>

\* Lines 135-143.  int(None) raises TypeError, which `except ValueError`
\* does not catch: the loop is left with raised = TRUE.
\* a handler that maps the channel to LCN 0 where line 143 continues
WithChannelMutDefaultLcn(mapping, id, lcn) ==
    DictPut(mapping, id, IF lcn.ok THEN lcn.val ELSE 0)

\* lines 140-143 for one channel: the mapping after it
WithChannel(mapping, id, lcn) == IF lcn.ok THEN DictPut(mapping, id, lcn.val) ELSE mapping

RECURSIVE ChannelMappingFrom(_, _, _)
ChannelMappingFrom(channels, i, mapping) ==
    IF i > Len(channels) THEN [raised |-> FALSE, mapping |-> mapping]
    ELSE IF ~channels[i].lcn.present THEN ChannelMappingFrom(channels, i + 1, mapping)
    ELSE IF ~channels[i].lcn.text.some THEN [raised |-> TRUE, exc |-> "TypeError"]
    ELSE ChannelMappingFrom(channels, i + 1,
             WithChannel(mapping, channels[i].id, IntOfStr(channels[i].lcn.text.s)))

channel_mapping(channels) == ChannelMappingFrom(channels, 1, EmptyDict)

\* `if start_time and stop_time` (line 169): a datetime is always truthy
KeepProgramme(start_time, stop_time) == start_time.ok /\ stop_time.ok

\* Lines 149-175: one pass over the programme elements in document order
\* Lines 154-155: if lcn not in programs_by_channel: programs_by_channel[lcn] = []
WithList(by_channel, lcn) ==
    IF lcn \in DOMAIN by_channel THEN by_channel ELSE DictPut(by_channel, lcn, <<>>)

\* Lines 158-175 for one programme of a known channel
WithProgramme(by_channel, lcn, programme, start_time, stop_time) ==
    IF KeepProgramme(start_time, stop_time)
    THEN DictPut(by_channel, lcn,
             Append(by_channel[lcn],
                    Program(TextOr(programme.title, SomeStr(<<"No Title">>)),
                            TextOr(programme.desc, SomeStr(<<>>)),
                            TextOr(programme.category, SomeStr(<<"General">>)),
                            start_time, stop_time)))
    ELSE by_channel

RECURSIVE ProgrammesFrom(_, _, _, _)
ProgrammesFrom(programmes, i, mapping, by_channel) ==
    IF i > Len(programmes) THEN by_channel
    ELSE IF programmes[i].channel \notin DOMAIN mapping
    THEN ProgrammesFrom(programmes, i + 1, mapping, by_channel)
    ELSE ProgrammesFrom(programmes, i + 1, mapping,
             WithProgramme(WithList(by_channel, mapping[programmes[i].channel]),
                           mapping[programmes[i].channel], programmes[i],
                           parse_xmltv_time(programmes[i].start),
                           parse_xmltv_time(programmes[i].stop)))

\* list.sort(key=lambda p: p.start): a stable sort.  InsertByStart puts x
\* behind every element whose start is not later than x's.
InsertAt(sorted, x, n) ==
    SubSeq(sorted, 1, n) \o <<x>> \o SubSeq(sorted, n + 1, Len(sorted))

\* an unstable insertion: x goes before the elements of equal start
InsertByStartMutBeforeTies(sorted, x) ==
    InsertAt(sorted, x,
             Cardinality({j \in 1..Len(sorted) : DtLess(sorted[j].start, x.start)}))

\* x goes behind every element whose start is not later than its own
InsertByStart(sorted, x) ==
    InsertAt(sorted, x,
             Cardinality({j \in 1..Len(sorted) : ~DtLess(x.start, sorted[j].start)}))

RECURSIVE SortFrom(_, _, _)
SortFrom(list, i, sorted) ==
    IF i > Len(list) THEN sorted
    ELSE SortFrom(list, i + 1, InsertByStart(sorted, list[i]))

SortByStart(list) == SortFrom(list, 1, <<>>)

\* parse_xml_guide(root): [raised |-> TRUE] when an exception leaves it,
\* else the returned dict
\* Lines 178-181
SortedGuide(by_channel) ==
    [raised |-> FALSE,
     programs |-> [lcn \in DOMAIN by_channel |-> SortByStart(by_channel[lcn])]]

\* Lines 145-181, given the outcome of lines 135-143
ParseProgrammes(root, cm) ==
    IF cm.raised THEN cm
    ELSE SortedGuide(ProgrammesFrom(root.programmes, 1, cm.mapping, EmptyDict))

parse_xml_guide(root) == ParseProgrammes(root, channel_mapping(root.channels))

----------------------------------------------------------------------------
(* TVGuideLoader.generate_fallback_programs *)

tv_channels == <<2, 20, 21, 22, 23, 24, 3, 30, 31, 32, 33, 34, 35, 36,
                 5, 50, 51, 52, 53, 54, 56, 6, 60, 62, 64, 65, 66, 67, 68,
                 8, 80, 81, 82, 83, 84, 85, 88>>

program_templates ==
    << <<"Morning News", "Latest news and weather updates", "News">>,
       <<"Breakfast TV", "Morning entertainment and lifestyle", "Entertainment">>,
       <<"Kids Programs", "Educational content for children", "Children">>,
       <<"Midday Movie", "Classic film presentation", "Movies">>,
       <<"Afternoon Talk", "Discussion and interview program", "Talk">>,
       <<"Game Show", "Interactive quiz and prizes", "Game Show">>,
       <<"Documentary", "Educational documentary series", "Documentary">>,
       <<"Evening News", "Comprehensive news coverage", "News">>,
       <<"Drama Series", "Popular drama television series", "Drama">>,
       <<"Comedy Show", "Light entertainment and comedy", "Comedy">>,
       <<"Late Night", "Late night entertainment", "Entertainment">>,
       <<"Sports Tonight", "Sports news and highlights", "Sports">> >>

FallbackSlots == 12

\* a datetime of zone TZ from its local fields (arithmetic on an aware
\* datetime keeps the local fields and the tzinfo)
AtWall(w) == [ok |-> TRUE, wall |-> w, off |-> SydneyOffsetAtWall(w)]

\* now.replace(minute=0, second=0, microsecond=0) - timedelta(hours=2)
FallbackStart(now) == now.wall - (now.wall % 3600) - 2 * 3600

\* str(n) for the slot numbers
NumStr(n) == <<"1", "2", "3", "4", "5", "6", "7", "8", "9", "10", "11", "12", "13">>[n]

\* A text of a Program (title, description, category) is the sequence of
\* the pieces it is concatenated from: f"{title} #{i+1}" with
\* title = f"{prefix} {title}", and f"{desc} - Episode {i+1}".
\* Lines 258-279 for slot i of channel lcn, start_time being that of line 255
FallbackProgram(i, start_time, template) ==
    Program(SomeStr(<<(IF i < 6 THEN "Morning"
                       ELSE IF i < 18 THEN "Afternoon" ELSE "Evening"),
                      " ", template[1], " #", NumStr(i + 1)>>),
            SomeStr(<<template[2], " - Episode ", NumStr(i + 1)>>),
            SomeStr(<<template[3]>>),
            AtWall(start_time + i * 3600), AtWall(start_time + i * 3600 + 3600))

\* Line 262: template_idx = (lcn + i) % len(program_templates)
template_idx(lcn, i) == (lcn + i) % Len(program_templates)

FallbackFrom(start_time) ==
    [lcn \in {tv_channels[j] : j \in 1..Len(tv_channels)} |->
        [k \in 1..FallbackSlots |->
            FallbackProgram(k - 1, start_time,
                            program_templates[template_idx(lcn, k - 1) + 1])]]

generate_fallback_programs(now) == FallbackFrom(FallbackStart(now))

----------------------------------------------------------------------------
(* Inputs: XMLTV timestamps and documents *)

Dec2(n) == <<DigitChars[(n \div 10) + 1], DigitChars[(n % 10) + 1]>>

\* the 14 digits YYYYMMDDHHMMSS
Stamp(y, m, d, H, M, S) ==
    Dec2(y \div 100) \o Dec2(y % 100) \o Dec2(m) \o Dec2(d) \o Dec2(H) \o Dec2(M) \o Dec2(S)

\* 1 August 2024, H o'clock, in the layouts "… +1000", "…+1000" and bare
TSpace(H) == SomeStr(Stamp(2024, 8, 1, H, 0, 0) \o <<" ", "+", "1", "0", "0", "0">>)

TConcat(H) == SomeStr(Stamp(2024, 8, 1, H, 0, 0) \o <<"+", "1", "0", "0", "0">>)

TBare(H) == SomeStr(Stamp(2024, 8, 1, H, 0, 0))

\* a truncated timestamp "2024080106", which strptime rejects
TShort == SomeStr(<<"2", "0", "2", "4", "0", "8", "0", "1", "0", "6">>)

Txt(piece) == SomeStr(<<piece>>)

Channel(id, lcn) == [id |-> id, lcn |-> lcn]

Lcn(chars) == Elem(SomeStr(chars))

Programme(channel, start, stop, title, desc, category) ==
    [channel |-> channel, start |-> start, stop |-> stop,
     title |-> title, desc |-> desc, category |-> category]

Doc(channels, programmes) == [channels |-> channels, programmes |-> programmes]

\* The documents a mirror may serve in the loader specification.
\*  1: two channels; programmes out of order, with equal starts, and one
\*     on an undeclared channel
\*  2: no channel and no programme
\*  3: a channel whose only programme has no start attribute
\*  4: a channel with an empty <lcn/> beside a well-formed channel
\*  5: a channel with a non-integer lcn and one without lcn, beside a
\*     well-formed channel
\*  6: a programme whose stop is before its start
SourceDocs ==
    << Doc(<<Channel(Txt("a"), Lcn(<<"2">>)), Channel(Txt("b"), Lcn(<<"3">>))>>,
           <<Programme(Txt("a"), TSpace(7), TSpace(8), Elem(Txt("Late")), Elem(Txt("p1")), NoElem),
             Programme(Txt("a"), TConcat(6), TConcat(7), Elem(Txt("Early")), Elem(Txt("p2")), Elem(Txt("News"))),
             Programme(Txt("a"), TBare(6), TBare(8), NoElem, Elem(Txt("p3")), NoElem),
             Programme(Txt("zz"), TSpace(6), TSpace(7), Elem(Txt("Lost")), Elem(Txt("p4")), NoElem),
             Programme(Txt("b"), TSpace(6), TSpace(7), Elem(Txt("Other")), NoElem, NoElem)>>),
       Doc(<<>>, <<>>),
       Doc(<<Channel(Txt("a"), Lcn(<<"2">>))>>,
           <<Programme(Txt("a"), NoStr, TSpace(7), Elem(Txt("Gone")), NoElem, NoElem)>>),
       Doc(<<Channel(Txt("a"), Elem(NoStr)), Channel(Txt("b"), Lcn(<<"3">>))>>,
           <<Programme(Txt("b"), TSpace(6), TSpace(7), Elem(Txt("Kept")), NoElem, NoElem)>>),
       Doc(<<Channel(Txt("a"), Lcn(<<"x", "2">>)), Channel(Txt("c"), NoElem),
             Channel(Txt("b"), Lcn(<<"3">>))>>,
           <<Programme(Txt("a"), TSpace(6), TSpace(7), Elem(Txt("Dropped")), NoElem, NoElem),
             Programme(Txt("b"), TSpace(6), TSpace(7), Elem(Txt("Kept")), NoElem, NoElem)>>),
       Doc(<<Channel(Txt("a"), Lcn(<<"2">>))>>,
           <<Programme(Txt("a"), TSpace(7), TSpace(6), Elem(Txt("Backwards")), NoElem, NoElem)>>) >>

\* What one GET of a mirror can come to: requests.get raising (connection
\* error, timeout), raise_for_status raising (non-2xx), ET.fromstring
\* raising (unparseable XML), or a parsed document.
FetchErrors == {"ConnectionError", "Timeout", "HTTPError", "ParseError"}

Outcomes == [kind : {"error"}, exc : FetchErrors]
            \cup [kind : {"doc"}, d : 1..Len(SourceDocs)]

----------------------------------------------------------------------------
(* TVGuideLoader state and load_tv_guide *)

urls == <<"http://xmltv.net/xml_files/Lismore.xml",
          "https://xmltv.net/xml_files/Lismore.xml",
          "http://xmltv.net/xml_files/Northern_NSW.xml",
          "https://xmltv.net/xml_files/Northern_NSW.xml">>

\* cache_duration = timedelta(hours=1), in seconds
cache_duration == 3600

\* The request threads of the server (app.run(threaded=True)).
Threads == {"t1", "t2"}

\* the local fields of the clock when the run starts: 2024-08-01 06:00:00
RunStart == NaiveSecs(2024, 8, 1, 6, 0, 0)

\* bounds of the runs
MaxClock == 122

MaxCalls == 3

\* minutes the clock may advance by in one step of the loader runs
TickSteps == {59, 60, 61}

VARIABLES
    clock,           \* minutes of wall clock since RunStart
    programs_cache,  \* self.programs_cache: a dict object [oid, programs]
    last_loaded,     \* self.last_loaded: NoTime for None, else a datetime
    nextOid,         \* identity of the next dict object created
    calls,           \* calls of load_tv_guide that have returned
    pc,              \* per thread: where it is in load_tv_guide
    now,             \* per thread: the local `now` of line 94
    idx,             \* per thread: position of the for loop in urls (1-based)
    programs,        \* per thread: the local `programs` of line 118
    ret,             \* per thread: the value returned
    tried,           \* per thread: the GETs issued by this call, in order
    outcome,         \* per thread: what the latest GET came to
    entry,           \* per thread: programs_cache and last_loaded on entry
    doc_in,          \* parser runs: the document given to parse_xml_guide
    parsed_out,      \* parser runs: what parse_xml_guide returned
    prog_in,         \* progress runs: the Program
    progress_out,    \* progress runs: the latest value read of its progress
    fb_now,          \* fallback runs: the datetime.now(TZ) of line 233
    fb_out,          \* fallback runs: what generate_fallback_programs returned
    time_in,         \* timestamp runs: the time_str given to parse_xmltv_time
    time_out,        \* timestamp runs: what parse_xmltv_time returned
    api_req,         \* API runs: the request being handled
    api_resp,        \* API runs: the response of the latest request
    upstream,        \* API runs: the urls requests.get was called with for it
    td_pc,           \* to_dict runs: the next key of the dict display
    td_out,          \* to_dict runs: the values computed so far
    heap,            \* concurrent runs: contents of each dict parse_xml_guide built
    building,        \* concurrent runs, per thread: parse_xml_guide in progress
    health,          \* concurrent runs: the /api/health request in progress
    served           \* concurrent runs, per thread: what /api/tv-guide serialized

vars == <<clock, programs_cache, last_loaded, nextOid, calls, pc, now, idx,
          programs, ret, tried, outcome, entry, doc_in, parsed_out, prog_in,
          progress_out, fb_now, fb_out, time_in, time_out, api_req, api_resp,
          upstream, td_pc, td_out, heap, building, health, served>>

loaderVars == <<programs_cache, last_loaded, nextOid, calls, pc, now, idx,
                programs, ret, tried, outcome, entry>>

parserVars == <<doc_in, parsed_out>>

progressVars == <<prog_in, progress_out>>

fallbackVars == <<fb_now, fb_out>>

timeVars == <<time_in, time_out>>

apiVars == <<api_req, api_resp, upstream>>

dictVars == <<td_pc, td_out>>

concVars == <<heap, building, health, served>>

laterVars == <<fallbackVars, timeVars, apiVars, dictVars, concVars>>

\* datetime.now(TZ) when the clock shows c
NowAt(c) == AtWall(RunStart + 60 * c)

NoObject == [oid |-> 0, programs |-> EmptyDict]

NoReturn == [kind |-> "none", obj |-> NoObject]

NoOutcome == [kind |-> "none"]

NoEntry == [cache |-> NoObject, last_loaded |-> NoTime]

\* The contents of a dict object.  A dict built by
\* generate_fallback_programs is kept as [oid, fallback_now]: its contents
\* are the function generate_fallback_programs of the `now` it read.
ProgramsOf(obj) ==
    IF "fallback_now" \in DOMAIN obj THEN generate_fallback_programs(obj.fallback_now)
    ELSE obj.programs

\* bool(d) for a dict d
Truthy(d) == DOMAIN d # {}

\* the cache test with <= in place of <
CacheValidMutInclusive(ll, cache, n) ==
    ll.ok /\ Truthy(cache.programs) /\ DtDiffSeconds(n, ll) <= cache_duration

\* Lines 97-99: self.programs_cache and self.last_loaded and
\* now - self.last_loaded < self.cache_duration
CacheValid(ll, cache, n) ==
    ll.ok /\ Truthy(cache.programs) /\ DtDiffSeconds(n, ll) < cache_duration

\* a handler that is `except ValueError`
HandlerCatchesMutValueError(exc) == exc \in {"ValueError"}

\* Line 126: `except Exception` catches every exception a GET, the XML
\* parser or parse_xml_guide raises
HandlerCatches(exc) ==
    exc \in {"ConnectionError", "Timeout", "HTTPError", "ParseError",
             "TypeError", "ValueError"}

\* a loop that tries the same url again
NextUrlMutRetry(i) == i

\* Line 110: the for loop moves to the next url
NextUrl(i) == i + 1

\* Line 120: `if programs:`
Adopt(parsed) == Truthy(parsed)

\* a fallback path that stamps self.last_loaded = now
LastLoadedAfterFallbackMutStamp(ll, n) == n

\* Lines 129-130: the fallback is returned and self.last_loaded is not touched
LastLoadedAfterFallback(ll, n) == ll

\* parse_xml_guide of each source document
ParsedSourceDocs == [d \in 1..Len(SourceDocs) |-> parse_xml_guide(SourceDocs[d])]

\* Lines 112-118 for one url: the exception raised, or the parsed dict
FetchAndParse(o) ==
    IF o.kind = "error" THEN [raised |-> TRUE, exc |-> o.exc]
    ELSE ParsedSourceDocs[o.d]

LoaderInit ==
    /\ clock = 0
    /\ programs_cache = NoObject
    /\ last_loaded = NoTime
    /\ nextOid = 1
    /\ calls = 0
    /\ pc = [t \in Threads |-> "idle"]
    /\ now = [t \in Threads |-> NoTime]
    /\ idx = [t \in Threads |-> 0]
    /\ programs = [t \in Threads |-> NoObject]
    /\ ret = [t \in Threads |-> NoReturn]
    /\ tried = [t \in Threads |-> <<>>]
    /\ outcome = [t \in Threads |-> NoOutcome]
    /\ entry = [t \in Threads |-> NoEntry]

ParserIdle == doc_in = Doc(<<>>, <<>>) /\ parsed_out = [done |-> FALSE]

ProgressIdle ==
    /\ prog_in = Program(NoStr, NoStr, NoStr, NoTime, NoTime)
    /\ progress_out = [done |-> FALSE]

FallbackIdle == fb_now = NoTime /\ fb_out = [done |-> FALSE]

TimeIdle == time_in = NoStr /\ time_out = [done |-> FALSE]

\* no request has been handled
NoResponse == [status |-> 0]

\* no request is being handled
NoRequest == [handler |-> "none", lcn |-> 0]

ApiIdle ==
    /\ api_req = [t \in Threads |-> NoRequest]
    /\ api_resp = [t \in Threads |-> NoResponse]
    /\ upstream = [t \in Threads |-> <<>>]

DictIdle == td_pc = "idle" /\ td_out = [done |-> FALSE]

\* no parse_xml_guide in progress, no /api/health in progress, nothing serialized
NoBuild == [active |-> FALSE]

NoHealth == [pc |-> "idle"]

NoServed == [done |-> FALSE]

ConcIdle ==
    /\ heap = EmptyDict
    /\ building = [t \in Threads |-> NoBuild]
    /\ health = NoHealth
    /\ served = [t \in Threads |-> NoServed]

LaterIdle == FallbackIdle /\ TimeIdle /\ ApiIdle /\ DictIdle /\ ConcIdle

\* time passes
Tick(d, max) ==
    /\ clock + d <= max
    /\ clock' = clock + d
    /\ UNCHANGED <<loaderVars, parserVars, progressVars, laterVars>>

\* Lines 94-100, cache still valid: the cached dict is returned
CallHit(t) ==
    /\ pc[t] = "idle"
    /\ calls < MaxCalls
    /\ CacheValid(last_loaded, programs_cache, NowAt(clock))
    /\ now' = [now EXCEPT ![t] = NowAt(clock)]
    /\ entry' = [entry EXCEPT ![t] = [cache |-> programs_cache, last_loaded |-> last_loaded]]
    /\ ret' = [ret EXCEPT ![t] = [kind |-> "cached", obj |-> programs_cache]]
    /\ pc' = [pc EXCEPT ![t] = "returned"]
    /\ UNCHANGED <<clock, programs_cache, last_loaded, nextOid, calls, idx,
                   programs, tried, outcome, parserVars, progressVars, laterVars>>

\* Lines 94-110, no valid cache: the for loop over urls starts
CallMiss(t) ==
    /\ pc[t] = "idle"
    /\ calls < MaxCalls
    /\ ~CacheValid(last_loaded, programs_cache, NowAt(clock))
    /\ now' = [now EXCEPT ![t] = NowAt(clock)]
    /\ entry' = [entry EXCEPT ![t] = [cache |-> programs_cache, last_loaded |-> last_loaded]]
    /\ idx' = [idx EXCEPT ![t] = 1]
    /\ pc' = [pc EXCEPT ![t] = "fetch"]
    /\ UNCHANGED <<clock, programs_cache, last_loaded, nextOid, calls,
                   programs, ret, tried, outcome, parserVars, progressVars, laterVars>>

\* Lines 110-127, one iteration: GET urls[idx], parse, and either go on
\* to adopt the result or continue with the next url
Fetch(t) ==
    /\ pc[t] = "fetch"
    /\ \E o \in Outcomes :
        LET res   == FetchAndParse(o)
            adopt == ~res.raised /\ Adopt(res.programs)
            nxt   == NextUrl(idx[t])
        IN  /\ outcome' = [outcome EXCEPT ![t] = o]
            /\ tried' = [tried EXCEPT ![t] =
                            Append(@, [url |-> urls[idx[t]], adopted |-> adopt])]
            /\ IF res.raised /\ ~HandlerCatches(res.exc)
               THEN /\ pc' = [pc EXCEPT ![t] = "raised"]
                    /\ UNCHANGED <<idx, programs, nextOid>>
               ELSE IF adopt
               THEN /\ programs' = [programs EXCEPT ![t] =
                                       [oid |-> nextOid, programs |-> res.programs]]
                    /\ nextOid' = nextOid + 1
                    /\ pc' = [pc EXCEPT ![t] = "store_cache"]
                    /\ UNCHANGED idx
               ELSE /\ idx' = [idx EXCEPT ![t] = nxt]
                    /\ pc' = [pc EXCEPT ![t] =
                                 IF nxt > Len(urls) THEN "fallback" ELSE "fetch"]
                    /\ UNCHANGED <<programs, nextOid>>
    /\ UNCHANGED <<clock, programs_cache, last_loaded, calls, now, ret, entry,
                   parserVars, progressVars, laterVars>>

\* Line 121: self.programs_cache = programs
StoreCache(t) ==
    /\ pc[t] = "store_cache"
    /\ programs_cache' = programs[t]
    /\ pc' = [pc EXCEPT ![t] = "store_stamp"]
    /\ UNCHANGED <<clock, last_loaded, nextOid, calls, now, idx, programs, ret,
                   tried, outcome, entry, parserVars, progressVars, laterVars>>

\* Lines 122-124: self.last_loaded = now; return programs
StoreStamp(t) ==
    /\ pc[t] = "store_stamp"
    /\ last_loaded' = now[t]
    /\ ret' = [ret EXCEPT ![t] = [kind |-> "parsed", obj |-> programs[t]]]
    /\ pc' = [pc EXCEPT ![t] = "returned"]
    /\ UNCHANGED <<clock, programs_cache, nextOid, calls, now, idx, programs,
                   tried, outcome, entry, parserVars, progressVars, laterVars>>

\* Lines 129-130: return self.generate_fallback_programs(), which reads
\* the clock again
Fallback(t) ==
    /\ pc[t] = "fallback"
    /\ ret' = [ret EXCEPT ![t] =
                  [kind |-> "fallback",
                   obj |-> [oid |-> nextOid, fallback_now |-> NowAt(clock)]]]
    /\ nextOid' = nextOid + 1
    /\ last_loaded' = LastLoadedAfterFallback(last_loaded, now[t])
    /\ pc' = [pc EXCEPT ![t] = "returned"]
    /\ UNCHANGED <<clock, programs_cache, calls, now, idx, programs, tried,
                   outcome, entry, parserVars, progressVars, laterVars>>

\* the caller has the result; the thread is free for the next call
Return(t) ==
    /\ pc[t] = "returned"
    /\ calls' = calls + 1
    /\ pc' = [pc EXCEPT ![t] = "idle"]
    /\ now' = [now EXCEPT ![t] = NoTime]
    /\ idx' = [idx EXCEPT ![t] = 0]
    /\ programs' = [programs EXCEPT ![t] = NoObject]
    /\ ret' = [ret EXCEPT ![t] = NoReturn]
    /\ tried' = [tried EXCEPT ![t] = <<>>]
    /\ outcome' = [outcome EXCEPT ![t] = NoOutcome]
    /\ entry' = [entry EXCEPT ![t] = NoEntry]
    /\ UNCHANGED <<clock, programs_cache, last_loaded, nextOid, parserVars, progressVars, laterVars>>

Init == LoaderInit /\ ParserIdle /\ ProgressIdle /\ LaterIdle

\* One caller at a time: the calls of load_tv_guide follow one another.
Next ==
    \/ \E d \in TickSteps : Tick(d, MaxClock)
    \/ CallHit("t1")
    \/ CallMiss("t1")
    \/ Fetch("t1")
    \/ StoreCache("t1")
    \/ StoreStamp("t1")
    \/ Fallback("t1")
    \/ Return("t1")

Spec == Init /\ [][Next]_vars

----------------------------------------------------------------------------
(* Runs of parse_xml_guide alone, on every document of a bounded family *)

\* programmes per document
MaxProgs == 3

\* The <channel> sections: two well-formed channels; a non-integer lcn;
\* a channel without <lcn>; two ids with the same LCN; an id declared
\* twice; an empty <lcn/>.
ChannelLists ==
    { <<Channel(Txt("a"), Lcn(<<"2">>)), Channel(Txt("b"), Lcn(<<"3">>))>>,
      <<Channel(Txt("a"), Lcn(<<"2">>)), Channel(Txt("b"), Lcn(<<"x", "3">>))>>,
      <<Channel(Txt("a"), NoElem), Channel(Txt("b"), Lcn(<<"3">>))>>,
      <<Channel(Txt("a"), Lcn(<<"2">>)), Channel(Txt("b"), Lcn(<<" ", "2">>))>>,
      <<Channel(Txt("a"), Lcn(<<"2">>)), Channel(Txt("a"), Lcn(<<"3">>))>>,
      <<Channel(Txt("a"), Elem(NoStr)), Channel(Txt("b"), Lcn(<<"3">>))>> }

\* start, stop and <title> of a programme: an early and a late hour, a
\* missing start attribute, an unparseable stop
ProgrammeTimes ==
    { [start |-> TSpace(6), stop |-> TSpace(7), title |-> Elem(Txt("News"))],
      [start |-> TConcat(7), stop |-> TConcat(8), title |-> NoElem],
      [start |-> NoStr, stop |-> TSpace(7), title |-> Elem(Txt("News"))],
      [start |-> TBare(6), stop |-> TShort, title |-> Elem(Txt("News"))] }

\* the channel attribute: two ids a document may declare, one it never does
ProgrammeChannels == {Txt("a"), Txt("b"), Txt("zz")}

ProgrammeChoices == [channel : ProgrammeChannels, times : ProgrammeTimes]

\* The i-th programme carries <desc>i</desc>, which identifies it in the output.
ParserDoc(channels, choice) ==
    Doc(channels,
        [i \in DOMAIN choice |->
            Programme(choice[i].channel, choice[i].times.start, choice[i].times.stop,
                      choice[i].times.title, Elem(Txt(NumStr(i))), NoElem)])

ParserInit ==
    /\ \E channels \in ChannelLists :
       \E n \in 0..MaxProgs :
       \E choice \in [1..n -> ProgrammeChoices] :
           doc_in = ParserDoc(channels, choice)
    /\ parsed_out = [done |-> FALSE]

\* programs = self.parse_xml_guide(root)
Parse ==
    /\ ~parsed_out.done
    /\ parsed_out' = [done |-> TRUE, result |-> parse_xml_guide(doc_in)]
    /\ UNCHANGED <<clock, loaderVars, doc_in, progressVars, laterVars>>

InitParse == LoaderInit /\ ParserInit /\ ProgressIdle /\ LaterIdle

NextParse == Parse

SpecParse == InitParse /\ [][NextParse]_vars

----------------------------------------------------------------------------
(* Runs that read Program.progress while the clock advances *)

\* start and stop of the Program, in minutes after RunStart
MaxSlot == 3

\* the clock of these runs, in minutes
MaxProgressClock == 4

ProgressInit ==
    /\ \E a \in 0..MaxSlot : \E b \in 0..MaxSlot :
           prog_in = Program(Txt("Show"), Txt(""), Txt("General"), NowAt(a), NowAt(b))
    /\ progress_out = [done |-> FALSE]

\* a read of p.progress: now = datetime.now(TZ), then lines 55-62
ReadProgress ==
    /\ progress_out' = [done |-> TRUE, now |-> NowAt(clock),
                        value |-> progress(prog_in, NowAt(clock))]
    /\ UNCHANGED <<clock, loaderVars, parserVars, prog_in, laterVars>>

NextProgress == Tick(1, MaxProgressClock) \/ ReadProgress

InitProgress == LoaderInit /\ ParserIdle /\ ProgressInit /\ LaterIdle

SpecProgress == InitProgress /\ [][NextProgress]_vars

----------------------------------------------------------------------------
(* Runs of generate_fallback_programs alone, at a family of current times *)

\* UTC dates of the current time: mid-winter, the days daylight time
\* begins and ends in Sydney (at 16:00 UTC), and the last day of the year
FallbackDates == {<<2024, 8, 1>>, <<2024, 10, 5>>, <<2024, 4, 6>>, <<2024, 12, 31>>}

FallbackMinutes == {0, 1, 59}

\* datetime.now(TZ) at the UTC time date H:M:00
NowAtUtc(date, H, M) ==
    AsTimezoneTZ(NaiveSecs(date[1], date[2], date[3], H, M, 0), 0)

FallbackInit ==
    /\ \E date \in FallbackDates : \E H \in 0..23 : \E M \in FallbackMinutes :
           fb_now = NowAtUtc(date, H, M)
    /\ fb_out = [done |-> FALSE]

\* programs = self.generate_fallback_programs(), reading the clock at line 233
GenerateFallback ==
    /\ ~fb_out.done
    /\ fb_out' = [done |-> TRUE, programs |-> generate_fallback_programs(fb_now)]
    /\ UNCHANGED <<clock, loaderVars, parserVars, progressVars, fb_now, timeVars,
                   apiVars, dictVars, concVars>>

InitFallback ==
    /\ LoaderInit /\ ParserIdle /\ ProgressIdle
    /\ FallbackInit /\ TimeIdle /\ ApiIdle /\ DictIdle /\ ConcIdle

NextFallback == GenerateFallback

SpecFallback == InitFallback /\ [][NextFallback]_vars

----------------------------------------------------------------------------
(* Runs of parse_xmltv_time alone, on a family of strings *)

\* the date-times YYYYMMDDHH0000 of the family
TimeDates == {<<2024, 8, 1>>, <<2024, 1, 15>>, <<2024, 10, 5>>}

TimeHours == {0, 6, 15, 16, 23}

\* explicit UTC offsets, sign and HHMM
TimeOffsets ==
    { <<"+", "1", "0", "0", "0">>, <<"-", "0", "5", "0", "0">>,
      <<"+", "0", "0", "0", "0">>, <<"+", "0", "5", "3", "0">>,
      <<"+", "1", "1", "0", "0">>, <<"-", "1", "2", "0", "0">> }

\* what stands between the date-time and the offset
TimeSeparators == {<<" ">>, <<>>}

\* strings that are not a 14-digit date-time with an optional +-HHMM offset
OtherTimes ==
    { NoStr, SomeStr(<<>>),
      SomeStr(<<"2", "0", "2", "4", "0", "8", "0", "1", "0", "6", "0", "0", "0", "0", " ", "U", "T", "C">>),
      SomeStr(<<"2", "0", "2", "4", "0", "8", "0", "1", "0", "6", "0", "0", "0", "0", " ", "-", "0", "5", ":", "0", "0">>),
      SomeStr(<<"2", "0", "2", "4", "0", "8", "0", "1", "0", "6">>),
      SomeStr(<<"x">>),
      SomeStr(<<"+", "1", "0", "0", "0">>),
      SomeStr(<<"2", "0", "2", "4", "-", "0", "8", "-", "0", "1">>),
      SomeStr(<<"2", "0", "2", "4", "0", "8", "0", "1", "0", "6", "0", "0", "0", "0", " ", "+", "9", "9", "0", "0">>),
      SomeStr(<<"2", "0", "2", "4", "0", "8", "0", "1", "0", "6", "0", "0", "0", " ", "+", "1", "0", "0", "0">>),
      SomeStr(<<"2", "0", "2", "4", "0", "8", "0", "1", "0", "6", "0", "0", "0", "0", " ", "+", "1">>),
      SomeStr(<<"2", "0", "2", "4", "0", "8", "0", "1", "0", "6", "0", "0", "0", "0", "Z">>),
      SomeStr(<<"2", "0", "2", "4", "0", "8", "0", "1", "0", "6", "0", "0", "0", "0", "1">>),
      SomeStr(<<"2", "0", "2", "4", "0", "8", "0", "1", "0", "6", "0", "0", "0", "0", " ", "-", "1", "0", "0", "0", "x">>),
      SomeStr(<<"2", "0", "2", "4", "0", "2", "3", "0", "0", "6", "0", "0", "0", "0">>),
      SomeStr(<<"2", "0", "2", "4", "0", "8", "0", "1", "0", "6", "0", "0", "6", "0", " ", "+", "1", "0", "0", "0">>),
      SomeStr(<<"2", "0", "2", "4", "0", "8", "0", "1", "0", "6", "0", "0", "0", "0", " ", "+", "-", "5">>),
      SomeStr(<<"2", "0", "2", "4", "0", "8", "0", "1", "0", "6", "0", "0", "0", "0", " ", " ", "+", "1", "0", "0", "0">>),
      SomeStr(<<"2", "0", "2", "4", "0", "8", "0", "1", "0", "6", "0", "0", "0", "0", " ", "+">>),
      SomeStr(<<"2", "0", "2", "4", "0", "8", "0", "1", "0", "6", "0", "0", "0", "0", " ", "+", " ", "1", "0", "0">>),
      SomeStr(<<"2", "0", "2", "4", "0", "8", "0", "1", " ", "6", "0", "0", "0", "0">>),
      SomeStr(<<"2", "0", "2", "4", "0", "8", "0", "1", "0", "6", "0", "0", "0", "0", "+", "x", "1">>),
      SomeStr(<<"2", "0", "2", "4", "0", "8", "0", "1", "0", "6", "0", "0">>) }

TimeStrings ==
    {SomeStr(Stamp(d[1], d[2], d[3], H, 0, 0) \o sep \o tz) :
        d \in TimeDates, H \in TimeHours, sep \in TimeSeparators, tz \in TimeOffsets}
    \cup {SomeStr(Stamp(d[1], d[2], d[3], H, 0, 0)) : d \in TimeDates, H \in TimeHours}
    \cup OtherTimes

TimeInit ==
    /\ time_in \in TimeStrings
    /\ time_out = [done |-> FALSE]

\* start_time = self.parse_xmltv_time(programme.get('start'))
ParseTime ==
    /\ ~time_out.done
    /\ time_out' = [done |-> TRUE, value |-> parse_xmltv_time(time_in)]
    /\ UNCHANGED <<clock, loaderVars, parserVars, progressVars, fallbackVars,
                   time_in, apiVars, dictVars, concVars>>

InitTime ==
    /\ LoaderInit /\ ParserIdle /\ ProgressIdle
    /\ FallbackIdle /\ TimeInit /\ ApiIdle /\ DictIdle /\ ConcIdle

NextTime == ParseTime

SpecTime == InitTime /\ [][NextTime]_vars

----------------------------------------------------------------------------
(* The channel directory, /api/stream-status and /api/stream-proxy *)

\* A Python int or str used as a dict key: its type and its characters.
\* 2 and "2" are different keys.
RECURSIVE DecStr(_)
DecStr(n) ==
    IF n < 10 THEN <<DigitChars[n + 1]>>
    ELSE DecStr(n \div 10) \o <<DigitChars[(n % 10) + 1]>>

PyInt(n) == [type |-> "int", repr |-> DecStr(n)]

PyStr(chars) == [type |-> "str", repr |-> chars]

\* a dict literal with int keys, from its key-value pairs
DictOfPairs(pairs) ==
    [k \in {PyInt(pairs[i][1]) : i \in 1..Len(pairs)} |->
        pairs[CHOOSE i \in 1..Len(pairs) : PyInt(pairs[i][1]) = k][2]]

\* Lines 518-576: the dict `channels` of get_channels
channels ==
    DictOfPairs(<<
       <<2, [lcn |-> 2, name |-> "ABC TV", stream |-> "https://c.mjh.nz/abc-nsw.m3u8", isAudioOnly |-> FALSE]>>,
       <<20, [lcn |-> 20, name |-> "ABC TV HD", stream |-> "https://c.mjh.nz/abc-nsw.m3u8", isAudioOnly |-> FALSE]>>,
       <<21, [lcn |-> 21, name |-> "ABC News", stream |-> "https://c.mjh.nz/abc-news.m3u8", isAudioOnly |-> FALSE]>>,
       <<22, [lcn |-> 22, name |-> "ABC Kids/Family", stream |-> "https://c.mjh.nz/abc-kids.m3u8", isAudioOnly |-> FALSE]>>,
       <<23, [lcn |-> 23, name |-> "ABC Entertains", stream |-> "https://c.mjh.nz/abc-me.m3u8", isAudioOnly |-> FALSE]>>,
       <<24, [lcn |-> 24, name |-> "ABC News", stream |-> "https://c.mjh.nz/abc-news.m3u8", isAudioOnly |-> FALSE]>>,
       <<3, [lcn |-> 3, name |-> "SBS One", stream |-> "https://i.mjh.nz/.r/sbs-sbst.m3u8", isAudioOnly |-> FALSE]>>,
       <<30, [lcn |-> 30, name |-> "SBS One HD", stream |-> "https://i.mjh.nz/.r/sbs-sbst.m3u8", isAudioOnly |-> FALSE]>>,
       <<31, [lcn |-> 31, name |-> "SBS Viceland HD", stream |-> "https://i.mjh.nz/.r/sbs-2syd.m3u8", isAudioOnly |-> FALSE]>>,
       <<32, [lcn |-> 32, name |-> "SBS World Movies", stream |-> "https://i.mjh.nz/.r/sbs-4syd.m3u8", isAudioOnly |-> FALSE]>>,
       <<33, [lcn |-> 33, name |-> "SBS Food", stream |-> "https://i.mjh.nz/.r/sbs-3syd.m3u8", isAudioOnly |-> FALSE]>>,
       <<34, [lcn |-> 34, name |-> "NITV HD", stream |-> "https://i.mjh.nz/.r/sbs-5nsw.m3u8", isAudioOnly |-> FALSE]>>,
       <<35, [lcn |-> 35, name |-> "SBS WorldWatch", stream |-> "https://i.mjh.nz/.r/sbs-6nat.m3u8", isAudioOnly |-> FALSE]>>,
       <<36, [lcn |-> 36, name |-> "NITV", stream |-> "https://i.mjh.nz/.r/sbs-5nsw.m3u8", isAudioOnly |-> FALSE]>>,
       <<5, [lcn |-> 5, name |-> "10 HD Northern NSW", stream |-> "https://i.mjh.nz/.r/10-nsw.m3u8", isAudioOnly |-> FALSE]>>,
       <<50, [lcn |-> 50, name |-> "10 HD", stream |-> "https://i.mjh.nz/.r/10-nsw.m3u8", isAudioOnly |-> FALSE]>>,
       <<51, [lcn |-> 51, name |-> "10 Drama", stream |-> "https://i.mjh.nz/.r/10bold-nsw.m3u8", isAudioOnly |-> FALSE]>>,
       <<52, [lcn |-> 52, name |-> "10 Comedy", stream |-> "https://i.mjh.nz/.r/10peach-nsw.m3u8", isAudioOnly |-> FALSE]>>,
       <<53, [lcn |-> 53, name |-> "Sky News Regional", stream |-> "https://i.mjh.nz/.r/sky-news-now.m3u8", isAudioOnly |-> FALSE]>>,
       <<54, [lcn |-> 54, name |-> "Gecko", stream |-> "https://i.mjh.nz/.r/10-geckotv.m3u8", isAudioOnly |-> FALSE]>>,
       <<56, [lcn |-> 56, name |-> "You TV", stream |-> "https://i.mjh.nz/.r/10-youtv.m3u8", isAudioOnly |-> FALSE]>>,
       <<6, [lcn |-> 6, name |-> "7 HD Seven", stream |-> "https://i.mjh.nz/.r/seven-syd.m3u8", isAudioOnly |-> FALSE]>>,
       <<60, [lcn |-> 60, name |-> "7 HD", stream |-> "https://i.mjh.nz/.r/seven-syd.m3u8", isAudioOnly |-> FALSE]>>,
       <<62, [lcn |-> 62, name |-> "7two HD", stream |-> "https://i.mjh.nz/.r/7two-syd.m3u8", isAudioOnly |-> FALSE]>>,
       <<64, [lcn |-> 64, name |-> "7mate HD", stream |-> "https://i.mjh.nz/.r/7mate-syd.m3u8", isAudioOnly |-> FALSE]>>,
       <<65, [lcn |-> 65, name |-> "7Bravo", stream |-> "https://i.mjh.nz/.r/7bravo-fast.m3u8", isAudioOnly |-> FALSE]>>,
       <<66, [lcn |-> 66, name |-> "7flix", stream |-> "https://i.mjh.nz/.r/7flix-syd.m3u8", isAudioOnly |-> FALSE]>>,
       <<67, [lcn |-> 67, name |-> "TVSN", stream |-> "https://i.mjh.nz/.r/tvsn-fast.m3u8", isAudioOnly |-> FALSE]>>,
       <<68, [lcn |-> 68, name |-> "Racing.com", stream |-> "https://i.mjh.nz/.r/racing-fast.m3u8", isAudioOnly |-> FALSE]>>,
       <<8, [lcn |-> 8, name |-> "Nine", stream |-> "https://i.mjh.nz/.r/channel-9-nsw.m3u8", isAudioOnly |-> FALSE]>>,
       <<80, [lcn |-> 80, name |-> "9HD", stream |-> "https://i.mjh.nz/.r/channel-9-nsw.m3u8", isAudioOnly |-> FALSE]>>,
       <<81, [lcn |-> 81, name |-> "Nine far north coast", stream |-> "https://i.mjh.nz/.r/channel-9-nsw.m3u8", isAudioOnly |-> FALSE]>>,
       <<82, [lcn |-> 82, name |-> "9Gem", stream |-> "https://i.mjh.nz/.r/gem-nsw.m3u8", isAudioOnly |-> FALSE]>>,
       <<83, [lcn |-> 83, name |-> "9Go!", stream |-> "https://i.mjh.nz/.r/go-nsw.m3u8", isAudioOnly |-> FALSE]>>,
       <<84, [lcn |-> 84, name |-> "9Life", stream |-> "https://i.mjh.nz/.r/life-nsw.m3u8", isAudioOnly |-> FALSE]>>,
       <<85, [lcn |-> 85, name |-> "9Gem HD", stream |-> "https://i.mjh.nz/.r/gem-nsw.m3u8", isAudioOnly |-> FALSE]>>,
       <<88, [lcn |-> 88, name |-> "9Go! HD", stream |-> "https://i.mjh.nz/.r/go-nsw.m3u8", isAudioOnly |-> FALSE]>>,
       <<25, [lcn |-> 25, name |-> "ABC Radio Sydney", stream |-> "/api/stream-proxy/25", isAudioOnly |-> TRUE]>>,
       <<26, [lcn |-> 26, name |-> "Radio National", stream |-> "/api/stream-proxy/26", isAudioOnly |-> TRUE]>>,
       <<27, [lcn |-> 27, name |-> "ABC Classic", stream |-> "/api/stream-proxy/27", isAudioOnly |-> TRUE]>>,
       <<28, [lcn |-> 28, name |-> "Triple J", stream |-> "/api/stream-proxy/28", isAudioOnly |-> TRUE]>>,
       <<29, [lcn |-> 29, name |-> "Triple J Unearthed", stream |-> "/api/stream-proxy/29", isAudioOnly |-> TRUE]>>,
       <<200, [lcn |-> 200, name |-> "Double J", stream |-> "/api/stream-proxy/200", isAudioOnly |-> TRUE]>>,
       <<201, [lcn |-> 201, name |-> "ABC Jazz", stream |-> "/api/stream-proxy/201", isAudioOnly |-> TRUE]>>,
       <<202, [lcn |-> 202, name |-> "ABC Kids Listen", stream |-> "/api/stream-proxy/202", isAudioOnly |-> TRUE]>>,
       <<203, [lcn |-> 203, name |-> "ABC Country", stream |-> "/api/stream-proxy/203", isAudioOnly |-> TRUE]>>,
       <<204, [lcn |-> 204, name |-> "ABC NewsRadio", stream |-> "/api/stream-proxy/204", isAudioOnly |-> TRUE]>>,
       <<301, [lcn |-> 301, name |-> "SBS Radio 1", stream |-> "https://i.mjh.nz/.r/sbs-sbs-radio-1.m3u8", isAudioOnly |-> TRUE]>>,
       <<302, [lcn |-> 302, name |-> "SBS Radio 2", stream |-> "https://i.mjh.nz/.r/sbs-sbs-radio-2.m3u8", isAudioOnly |-> TRUE]>>,
       <<303, [lcn |-> 303, name |-> "SBS Radio 3", stream |-> "https://i.mjh.nz/.r/sbs-sbs-radio-3.m3u8", isAudioOnly |-> TRUE]>>,
       <<304, [lcn |-> 304, name |-> "SBS Arabic", stream |-> "https://i.mjh.nz/.r/sbs-sbs-pop-araby.m3u8", isAudioOnly |-> TRUE]>>,
       <<305, [lcn |-> 305, name |-> "SBS South Asian", stream |-> "https://i.mjh.nz/.r/sbs-sbs-pop-desi.m3u8", isAudioOnly |-> TRUE]>>,
       <<306, [lcn |-> 306, name |-> "SBS Chill", stream |-> "https://i.mjh.nz/.r/sbs-sbs-chill.m3u8", isAudioOnly |-> TRUE]>>,
       <<307, [lcn |-> 307, name |-> "SBS PopAsia", stream |-> "https://i.mjh.nz/.r/sbs-sbs-pop-asia.m3u8", isAudioOnly |-> TRUE]>> >>)

\* Lines 584-595: the dict `audio_streams` of stream_proxy
audio_streams ==
    DictOfPairs(<<
       <<25, "https://i.mjh.nz/.r/radio-ih-7135">>,
       <<26, "https://i.mjh.nz/.r/radio-ih-7111">>,
       <<27, "https://i.mjh.nz/.r/radio-ih-7118">>,
       <<28, "https://i.mjh.nz/.r/radio-ih-7115">>,
       <<29, "https://i.mjh.nz/.r/radio-ih-7116">>,
       <<200, "https://i.mjh.nz/.r/radio-ih-7090">>,
       <<201, "https://i.mjh.nz/.r/radio-ih-7124">>,
       <<202, "https://i.mjh.nz/.r/radio-ih-7967">>,
       <<203, "https://i.mjh.nz/.r/radio-ih-7125">>,
       <<204, "https://i.mjh.nz/.r/radio-ih-7110">> >>)

\* json.dumps writes an int key of an object as the string of its digits
JsonKey(k) == PyStr(k.repr)

\* jsonify(d).get_json() for a dict d with int keys: the object parsed
\* back has the keys json.dumps wrote
JsonRoundTrip(d) ==
    [k \in {JsonKey(x) : x \in DOMAIN d} |->
        d[CHOOSE x \in DOMAIN d : JsonKey(x) = k]]

\* Line 578: return jsonify(channels)
get_channels == channels

\* Lines 654-667: get_stream_status(lcn), lcn the int of the route
get_stream_status(lcn, all_channels) ==
    IF PyInt(lcn) \notin DOMAIN all_channels
    THEN [status |-> 404, error |-> "Channel not found"]
    ELSE [status |-> 200, lcn |-> lcn,
          name |-> all_channels[PyInt(lcn)].name,
          available |-> TRUE,
          stream |-> all_channels[PyInt(lcn)].stream,
          isAudioOnly |-> all_channels[PyInt(lcn)].isAudioOnly]

\* the LCNs requested: every key of either dict, and three of neither
ApiLcns ==
    {n \in 0..307 : PyInt(n) \in DOMAIN channels \cup DOMAIN audio_streams}
    \cup {0, 1, 999}

\* What requests.get and raise_for_status of lines 601-609 come to: a
\* response with or without a Content-Length header, or an exception
UpstreamOutcomes ==
    {[ok |-> TRUE, content_length |-> TRUE], [ok |-> TRUE, content_length |-> FALSE],
     [ok |-> FALSE, exc |-> "ConnectionError"], [ok |-> FALSE, exc |-> "HTTPError"]}

\* a test of the directory where line 597 tests audio_streams
ProxyKnownMutDirectory(lcn) == PyInt(lcn) \in DOMAIN channels

\* Line 597: lcn in audio_streams
ProxyKnown(lcn) == PyInt(lcn) \in DOMAIN audio_streams

\* Lines 633 and 636-640: the response after the upstream outcome o
ProxyResponse(lcn, o) ==
    IF o.ok
    THEN [status |-> 200,
          length_header |-> IF o.content_length THEN "Content-Length"
                            ELSE "Transfer-Encoding"]
    ELSE [status |-> 503, error |-> "Stream unavailable", details |-> o.exc, lcn |-> lcn]

\* Line 654: all_channels = get_channels().get_json()
all_channels == JsonRoundTrip(get_channels)

\* thread t is inside requests.get of line 601: the upstream request is
\* issued and no response is built yet
InUpstream(t) ==
    /\ api_req[t].handler = "stream_proxy"
    /\ api_resp[t] = NoResponse

\* GET /api/stream-status/<lcn>, handled on thread t
StreamStatus(t, lcn) ==
    /\ ~InUpstream(t)
    /\ api_req' = [api_req EXCEPT ![t] = [handler |-> "get_stream_status", lcn |-> lcn]]
    /\ api_resp' = [api_resp EXCEPT ![t] = get_stream_status(lcn, all_channels)]
    /\ upstream' = [upstream EXCEPT ![t] = <<>>]
    /\ UNCHANGED <<clock, loaderVars, parserVars, progressVars, fallbackVars,
                   timeVars, dictVars, concVars>>

\* GET /api/stream-proxy/<lcn> on thread t, lines 584-601: the test of
\* line 597 and the call of requests.get, in which the thread waits for
\* the network while other requests are handled.  audio_streams[lcn] is
\* evaluated inside the try: a missing key is a KeyError, answered 503 by
\* line 635.
StreamProxy(t, lcn) ==
    /\ ~InUpstream(t)
    /\ api_req' = [api_req EXCEPT ![t] = [handler |-> "stream_proxy", lcn |-> lcn]]
    /\ IF ~ProxyKnown(lcn)
       THEN /\ api_resp' = [api_resp EXCEPT ![t] =
                               [status |-> 404, error |-> "Audio channel not found"]]
            /\ upstream' = [upstream EXCEPT ![t] = <<>>]
       ELSE IF PyInt(lcn) \notin DOMAIN audio_streams
       THEN /\ api_resp' = [api_resp EXCEPT ![t] =
                               ProxyResponse(lcn, [ok |-> FALSE, exc |-> "KeyError"])]
            /\ upstream' = [upstream EXCEPT ![t] = <<>>]
       ELSE /\ api_resp' = [api_resp EXCEPT ![t] = NoResponse]
            /\ upstream' = [upstream EXCEPT ![t] = <<audio_streams[PyInt(lcn)]>>]
    /\ UNCHANGED <<clock, loaderVars, parserVars, progressVars, fallbackVars,
                   timeVars, dictVars, concVars>>

\* Lines 601-640 on thread t: requests.get returns or raises, and the
\* response is built
ProxyUpstream(t, o) ==
    /\ InUpstream(t)
    /\ api_resp' = [api_resp EXCEPT ![t] = ProxyResponse(api_req[t].lcn, o)]
    /\ UNCHANGED <<clock, loaderVars, parserVars, progressVars, fallbackVars,
                   timeVars, dictVars, concVars, api_req, upstream>>

InitApi == LoaderInit /\ ParserIdle /\ ProgressIdle /\ LaterIdle

NextApi ==
    \E t \in Threads :
        \/ \E lcn \in ApiLcns : StreamStatus(t, lcn)
        \/ \E lcn \in ApiLcns : StreamProxy(t, lcn)
        \/ \E o \in UpstreamOutcomes : ProxyUpstream(t, o)

SpecApi == InitApi /\ [][NextApi]_vars

----------------------------------------------------------------------------
(* Runs of Program.to_dict while the clock advances between its reads *)

\* the dict display of lines 71-82 before any derived key is computed
ToDictEmpty ==
    [done |-> FALSE, isLive |-> FALSE, progress |-> [num |-> 0, den |-> 1],
     remainingMins |-> 0, durationMins |-> 0]

\* Line 69: prog.to_dict() is called (line 508)
ToDictCall ==
    /\ td_pc = "idle"
    /\ td_pc' = "isLive"
    /\ td_out' = ToDictEmpty
    /\ UNCHANGED <<clock, loaderVars, parserVars, progressVars, fallbackVars,
                   timeVars, apiVars, concVars>>

\* Line 78: 'isLive': self.is_live, which reads the clock
ToDictIsLive ==
    /\ td_pc = "isLive"
    /\ td_out' = [td_out EXCEPT !.isLive = is_live(prog_in, NowAt(clock))]
    /\ td_pc' = "progress"
    /\ UNCHANGED <<clock, loaderVars, parserVars, progressVars, fallbackVars,
                   timeVars, apiVars, concVars>>

\* Line 79: 'progress': self.progress, which reads the clock
ToDictProgress ==
    /\ td_pc = "progress"
    /\ td_out' = [td_out EXCEPT !.progress = progress(prog_in, NowAt(clock))]
    /\ td_pc' = "remaining_test"
    /\ UNCHANGED <<clock, loaderVars, parserVars, progressVars, fallbackVars,
                   timeVars, apiVars, concVars>>

\* Line 80, the condition `if self.is_live`, which reads the clock; the
\* value is 0 when it is false
ToDictRemainingTest ==
    /\ td_pc = "remaining_test"
    /\ IF is_live(prog_in, NowAt(clock))
       THEN td_pc' = "remaining_now" /\ UNCHANGED td_out
       ELSE td_pc' = "duration" /\ td_out' = [td_out EXCEPT !.remainingMins = 0]
    /\ UNCHANGED <<clock, loaderVars, parserVars, progressVars, fallbackVars,
                   timeVars, apiVars, concVars>>

\* Line 80, max(0, int((self.stop - datetime.now(TZ)).total_seconds() / 60))
ToDictRemainingNow ==
    /\ td_pc = "remaining_now"
    /\ td_out' = [td_out EXCEPT !.remainingMins =
                     Max2(0, TruncDiv(DtDiffSeconds(prog_in.stop, NowAt(clock)), 60))]
    /\ td_pc' = "duration"
    /\ UNCHANGED <<clock, loaderVars, parserVars, progressVars, fallbackVars,
                   timeVars, apiVars, concVars>>

\* Line 81: 'durationMins': self.duration_minutes; the dict is returned
ToDictDuration ==
    /\ td_pc = "duration"
    /\ td_out' = [td_out EXCEPT !.durationMins = duration_minutes(prog_in),
                                !.done = TRUE]
    /\ td_pc' = "idle"
    /\ UNCHANGED <<clock, loaderVars, parserVars, progressVars, fallbackVars,
                   timeVars, apiVars, concVars>>

InitToDict ==
    /\ LoaderInit /\ ParserIdle /\ ProgressInit
    /\ FallbackIdle /\ TimeIdle /\ ApiIdle /\ DictIdle /\ ConcIdle

NextToDict ==
    \/ Tick(1, MaxProgressClock)
    \/ ToDictCall
    \/ ToDictIsLive
    \/ ToDictProgress
    \/ ToDictRemainingTest
    \/ ToDictRemainingNow
    \/ ToDictDuration

SpecToDict == InitToDict /\ [][NextToDict]_vars

----------------------------------------------------------------------------
(* Concurrent requests: app.run(threaded=True) serves every request on a  *)
(* thread of its own, and the one tv_guide_loader is shared by all of     *)
(* them without a lock.  parse_xml_guide is followed statement by         *)
(* statement on the dict object it builds.                                *)

\* calls of load_tv_guide started in a concurrent run
MaxConcCalls == 2

\* the clock of a concurrent run, in minutes
MaxConcClock == 61

\* the mirrors of a concurrent run fail or serve this document: one channel
\* whose two programmes are listed later one first
ConcDocs ==
    << Doc(<<Channel(Txt("a"), Lcn(<<"2">>))>>,
           <<Programme(Txt("a"), TSpace(7), TSpace(8), Elem(Txt("Late")), NoElem, NoElem),
             Programme(Txt("a"), TSpace(6), TSpace(7), Elem(Txt("Early")), NoElem, NoElem)>>) >>

ConcOutcomes == [kind : {"error"}, exc : {"ConnectionError"}]
                \cup [kind : {"doc"}, d : 1..Len(ConcDocs)]

ConcTickSteps == {61}

\* calls of load_tv_guide started so far
Started == calls + Cardinality({t \in Threads : pc[t] # "idle"})

\* a parse that fills the dict self.programs_cache refers to
BuildTargetMutInPlace(cache, fresh) == IF cache.oid # 0 THEN cache.oid ELSE fresh

\* Line 146: programs_by_channel = {} is a new dict object
BuildTarget(cache, fresh) == fresh

\* a dict object under construction by parse_xml_guide(ConcDocs[d]), in a
\* call of load_tv_guide whose `now` of line 94 is n
NewDict(d, n) == [programs |-> EmptyDict, complete |-> FALSE, d |-> d, stamp |-> n]

\* Lines 149-175 for programme i of the document: the dict afterwards
AfterProgramme(by_channel, mapping, programme) ==
    IF programme.channel \notin DOMAIN mapping THEN by_channel
    ELSE WithProgramme(WithList(by_channel, mapping[programme.channel]),
                       mapping[programme.channel], programme,
                       parse_xmltv_time(programme.start),
                       parse_xmltv_time(programme.stop))

\* the keys of the dict in insertion order, after programme i
OrderAfter(order, by_channel, mapping, programme) ==
    IF programme.channel \notin DOMAIN mapping THEN order
    ELSE IF mapping[programme.channel] \in DOMAIN by_channel THEN order
    ELSE Append(order, mapping[programme.channel])

\* what the dict object holds now
CurrentContent(obj) == IF obj.oid = 0 THEN EmptyDict ELSE heap[obj.oid].programs

\* the test of lines 97-99 failed: the for loop of line 110 starts
MissTo(t) == /\ idx' = [idx EXCEPT ![t] = 1]
             /\ pc' = [pc EXCEPT ![t] = "fetch"]

\* the test of lines 97-99 goes on with its next operand
TestTo(t, next) == /\ pc' = [pc EXCEPT ![t] = next]
                   /\ UNCHANGED idx

\* Line 94: now = datetime.now(TZ).  No lock is taken: the statements of
\* lines 94-100 of one request interleave with those of the others.
ConcEnter(t) ==
    /\ pc[t] = "idle"
    /\ Started < MaxConcCalls
    /\ now' = [now EXCEPT ![t] = NowAt(clock)]
    /\ entry' = [entry EXCEPT ![t] = [cache |-> programs_cache, last_loaded |-> last_loaded]]
    /\ pc' = [pc EXCEPT ![t] = "test_stamp"]
    /\ UNCHANGED <<clock, programs_cache, last_loaded, nextOid, calls, idx,
                   programs, ret, tried, outcome, parserVars, progressVars, laterVars>>

\* Line 97: `self.last_loaded and` reads self.last_loaded
ConcTestStamp(t) ==
    /\ pc[t] = "test_stamp"
    /\ IF last_loaded.ok THEN TestTo(t, "test_cache") ELSE MissTo(t)
    /\ UNCHANGED <<clock, programs_cache, last_loaded, nextOid, calls, now,
                   programs, ret, tried, outcome, entry, parserVars,
                   progressVars, laterVars>>

\* Line 98: `self.programs_cache and` reads self.programs_cache
ConcTestCache(t) ==
    /\ pc[t] = "test_cache"
    /\ IF Truthy(CurrentContent(programs_cache)) THEN TestTo(t, "test_age") ELSE MissTo(t)
    /\ UNCHANGED <<clock, programs_cache, last_loaded, nextOid, calls, now,
                   programs, ret, tried, outcome, entry, parserVars,
                   progressVars, laterVars>>

\* Line 99: `now - self.last_loaded < self.cache_duration` reads
\* self.last_loaded again
ConcTestAge(t) ==
    /\ pc[t] = "test_age"
    /\ IF DtDiffSeconds(now[t], last_loaded) < cache_duration
       THEN TestTo(t, "return_cache") ELSE MissTo(t)
    /\ UNCHANGED <<clock, programs_cache, last_loaded, nextOid, calls, now,
                   programs, ret, tried, outcome, entry, parserVars,
                   progressVars, laterVars>>

\* Line 100: `return self.programs_cache` reads self.programs_cache again
ConcReturnCache(t) ==
    /\ pc[t] = "return_cache"
    /\ ret' = [ret EXCEPT ![t] = [kind |-> "cached", obj |-> programs_cache]]
    /\ pc' = [pc EXCEPT ![t] = "returned"]
    /\ UNCHANGED <<clock, programs_cache, last_loaded, nextOid, calls, now, idx,
                   programs, tried, outcome, entry, parserVars, progressVars,
                   laterVars>>

\* Lines 112-117 and 135-146: the GET, the XML parser, the channel mapping
\* and the creation of programs_by_channel
ConcFetch(t) ==
    /\ pc[t] = "fetch"
    /\ \E o \in ConcOutcomes :
        /\ outcome' = [outcome EXCEPT ![t] = o]
        /\ IF o.kind = "error" \/ channel_mapping(ConcDocs[o.d].channels).raised
           THEN /\ tried' = [tried EXCEPT ![t] =
                                Append(@, [url |-> urls[idx[t]], adopted |-> FALSE])]
                /\ idx' = [idx EXCEPT ![t] = NextUrl(idx[t])]
                /\ pc' = [pc EXCEPT ![t] =
                             IF NextUrl(idx[t]) > Len(urls) THEN "fallback" ELSE "fetch"]
                /\ UNCHANGED <<nextOid, heap, building>>
           ELSE /\ building' = [building EXCEPT ![t] =
                                   [active |-> TRUE,
                                    oid |-> BuildTarget(programs_cache, nextOid),
                                    d |-> o.d,
                                    mapping |-> channel_mapping(ConcDocs[o.d].channels).mapping,
                                    i |-> 1, order |-> <<>>, j |-> 1]]
                /\ heap' = DictPut(heap, BuildTarget(programs_cache, nextOid), NewDict(o.d, now[t]))
                /\ nextOid' = nextOid + 1
                /\ pc' = [pc EXCEPT ![t] = "parsing"]
                /\ UNCHANGED <<idx, tried>>
    /\ UNCHANGED <<clock, programs_cache, last_loaded, calls, now, programs, ret,
                   entry, health, served, parserVars, progressVars,
                   fallbackVars, timeVars, apiVars, dictVars>>

\* Lines 149-175, one iteration of the loop over the programme elements
ConcPopulate(t) ==
    /\ pc[t] = "parsing"
    /\ building[t].i <= Len(ConcDocs[building[t].d].programmes)
    /\ heap' = [heap EXCEPT ![building[t].oid].programs =
                   AfterProgramme(@, building[t].mapping,
                                  ConcDocs[building[t].d].programmes[building[t].i])]
    /\ building' = [building EXCEPT
                       ![t].i = @ + 1,
                       ![t].order =
                           OrderAfter(@, heap[building[t].oid].programs,
                                      building[t].mapping,
                                      ConcDocs[building[t].d].programmes[building[t].i])]
    /\ UNCHANGED <<clock, loaderVars, health, served, parserVars, progressVars,
                   fallbackVars, timeVars, apiVars, dictVars>>

\* Lines 178-179, one iteration: the list of the next key is sorted in place
ConcSort(t) ==
    /\ pc[t] = "parsing"
    /\ building[t].i > Len(ConcDocs[building[t].d].programmes)
    /\ building[t].j <= Len(building[t].order)
    /\ heap' = [heap EXCEPT
                   ![building[t].oid].programs[building[t].order[building[t].j]] =
                       SortByStart(@)]
    /\ building' = [building EXCEPT ![t].j = @ + 1]
    /\ UNCHANGED <<clock, loaderVars, health, served, parserVars, progressVars,
                   fallbackVars, timeVars, apiVars, dictVars>>

\* Lines 181 and 118-120: parse_xml_guide returns the dict, and
\* `if programs:` decides between adopting it and the next url
ConcParsed(t) ==
    /\ pc[t] = "parsing"
    /\ building[t].i > Len(ConcDocs[building[t].d].programmes)
    /\ building[t].j > Len(building[t].order)
    /\ heap' = [heap EXCEPT ![building[t].oid].complete = TRUE]
    /\ building' = [building EXCEPT ![t] = NoBuild]
    /\ tried' = [tried EXCEPT ![t] =
                    Append(@, [url |-> urls[idx[t]],
                               adopted |-> Adopt(heap[building[t].oid].programs)])]
    /\ IF Adopt(heap[building[t].oid].programs)
       THEN /\ programs' = [programs EXCEPT ![t] =
                               [oid |-> building[t].oid,
                                programs |-> heap[building[t].oid].programs]]
            /\ pc' = [pc EXCEPT ![t] = "store_cache"]
            /\ UNCHANGED idx
       ELSE /\ idx' = [idx EXCEPT ![t] = NextUrl(idx[t])]
            /\ pc' = [pc EXCEPT ![t] =
                         IF NextUrl(idx[t]) > Len(urls) THEN "fallback" ELSE "fetch"]
            /\ UNCHANGED programs
    /\ UNCHANGED <<clock, programs_cache, last_loaded, nextOid, calls, now, ret,
                   outcome, entry, health, served, parserVars, progressVars,
                   fallbackVars, timeVars, apiVars, dictVars>>

\* get_tv_guide, lines 506-510: the returned dict is read and serialized.
\* What is read is what the dict object holds at that moment.
Serialize(t) ==
    /\ pc[t] = "returned"
    /\ ~served[t].done
    /\ served' = [served EXCEPT ![t] =
                     IF ret[t].kind = "fallback"
                     THEN [done |-> TRUE, kind |-> "fallback"]
                     ELSE [done |-> TRUE, kind |-> ret[t].kind,
                           oid |-> ret[t].obj.oid,
                           content |-> heap[ret[t].obj.oid]]]
    /\ UNCHANGED <<clock, loaderVars, heap, building, health, parserVars,
                   progressVars, fallbackVars, timeVars, apiVars, dictVars>>

\* the response of /api/tv-guide is sent; the thread is free
ConcReturn(t) ==
    /\ pc[t] = "returned"
    /\ served[t].done
    /\ calls' = calls + 1
    /\ pc' = [pc EXCEPT ![t] = "idle"]
    /\ now' = [now EXCEPT ![t] = NoTime]
    /\ idx' = [idx EXCEPT ![t] = 0]
    /\ programs' = [programs EXCEPT ![t] = NoObject]
    /\ ret' = [ret EXCEPT ![t] = NoReturn]
    /\ tried' = [tried EXCEPT ![t] = <<>>]
    /\ outcome' = [outcome EXCEPT ![t] = NoOutcome]
    /\ entry' = [entry EXCEPT ![t] = NoEntry]
    /\ served' = [served EXCEPT ![t] = NoServed]
    /\ UNCHANGED <<clock, programs_cache, last_loaded, nextOid, heap, building,
                   health, parserVars, progressVars, fallbackVars, timeVars,
                   apiVars, dictVars>>

\* health_check, line 675: the condition `if tv_guide_loader.last_loaded`
\* is evaluated first; None is reported when it is false
HealthTestStamp ==
    /\ health.pc \in {"idle", "done"}
    /\ health' = IF last_loaded.ok THEN [pc |-> "read_stamp"]
                 ELSE [pc |-> "read_cache", tv_guide_last_loaded |-> NoTime]
    /\ UNCHANGED <<clock, loaderVars, heap, building, served, parserVars,
                   progressVars, fallbackVars, timeVars, apiVars, dictVars>>

\* health_check, line 675: tv_guide_loader.last_loaded.isoformat() reads
\* the attribute again
HealthReadStamp ==
    /\ health.pc = "read_stamp"
    /\ health' = [pc |-> "read_cache", tv_guide_last_loaded |-> last_loaded]
    /\ UNCHANGED <<clock, loaderVars, heap, building, served, parserVars,
                   progressVars, fallbackVars, timeVars, apiVars, dictVars>>

\* health_check, line 676: len(tv_guide_loader.programs_cache)
HealthReadCache ==
    /\ health.pc = "read_cache"
    /\ health' = [pc |-> "done",
                  tv_guide_last_loaded |-> health.tv_guide_last_loaded,
                  cached_channels |-> Cardinality(DOMAIN CurrentContent(programs_cache))]
    /\ UNCHANGED <<clock, loaderVars, heap, building, served, parserVars,
                   progressVars, fallbackVars, timeVars, apiVars, dictVars>>

InitConc == LoaderInit /\ ParserIdle /\ ProgressIdle /\ LaterIdle

NextConc ==
    \/ \E d \in ConcTickSteps : Tick(d, MaxConcClock)
    \/ \E t \in Threads :
        \/ ConcEnter(t)
        \/ ConcTestStamp(t)
        \/ ConcTestCache(t)
        \/ ConcTestAge(t)
        \/ ConcReturnCache(t)
        \/ ConcFetch(t)
        \/ ConcPopulate(t)
        \/ ConcSort(t)
        \/ ConcParsed(t)
        \/ StoreCache(t)
        \/ StoreStamp(t)
        \/ Fallback(t)
        \/ Serialize(t)
        \/ ConcReturn(t)
    \/ HealthTestStamp
    \/ HealthReadStamp
    \/ HealthReadCache

SpecConc == InitConc /\ [][NextConc]_vars

----------------------------------------------------------------------------
(* Properties of load_tv_guide (specification Spec) *)

OneHour == 60 * 60

\* the cache a call found on entry was loaded less than an hour before its `now`
FreshOnEntry(t) ==
    entry[t].last_loaded.ok /\ DtDiffSeconds(now[t], entry[t].last_loaded) < OneHour

\* the call of thread t has issued no GET and touched neither field
Untouched(t) ==
    /\ tried[t] = <<>>
    /\ programs_cache = entry[t].cache
    /\ last_loaded = entry[t].last_loaded

\* the call of thread t is at, or past, the GET of the first url
RefreshAttempted(t) ==
    \/ pc[t] = "fetch" /\ idx[t] = 1 /\ tried[t] = <<>>
    \/ Len(tried[t]) >= 1 /\ tried[t][1].url = urls[1]

\* C1: a call made less than an hour after the last successful load
\* returns the very dict object that is cached, issues no GET and leaves
\* programs_cache and last_loaded as they were; a call made an hour or more
\* after it, or before any load succeeded, goes to GET the first url.
C1_CacheHitWithinHour ==
    \A t \in Threads :
        pc[t] # "idle" =>
            IF FreshOnEntry(t)
            THEN /\ pc[t] = "returned"
                 /\ ret[t].kind = "cached"
                 /\ ret[t].obj = entry[t].cache
                 /\ ret[t].obj.oid = programs_cache.oid
                 /\ Untouched(t)
            ELSE RefreshAttempted(t)

\* a call 59 minutes after the load that filled the cache has returned the cached dict
C1_Witness ==
    \E t \in Threads :
        /\ pc[t] = "returned"
        /\ ret[t].kind = "cached"
        /\ entry[t].last_loaded.ok
        /\ DtDiffSeconds(now[t], entry[t].last_loaded) = 59 * 60

\* C2: within one call the urls are fetched in list order, each at most
\* once: the i-th GET is of urls[i], a GET follows only GETs that were not
\* adopted, and at most four are issued.
C2_SourcesInOrderOnce ==
    \A t \in Threads :
        /\ Len(tried[t]) <= 4
        /\ \A i \in 1..Len(tried[t]) :
               /\ tried[t][i].url = urls[i]
               /\ (i < Len(tried[t]) => ~tried[t][i].adopted)
        /\ (pc[t] = "fetch" => idx[t] = Len(tried[t]) + 1)
        /\ (pc[t] \in {"store_cache", "store_stamp"} =>
               Len(tried[t]) >= 1 /\ tried[t][Len(tried[t])].adopted)

\* three sources failed and the fourth was adopted
C2_Witness ==
    \E t \in Threads :
        /\ Len(tried[t]) = 4
        /\ tried[t][4].adopted
        /\ pc[t] = "returned"

\* d is a dict with at least one key, every value a list
NonEmptyDictOfLists(d) ==
    /\ DOMAIN d # {}
    /\ \A lcn \in DOMAIN d : DOMAIN d[lcn] = 1..Len(d[lcn])

\* C3: whatever the cache holds and whatever each GET comes to, no
\* exception leaves load_tv_guide and what it returns is a non-empty dict
\* of lists.
C3_AlwaysReturnsMapping ==
    \A t \in Threads :
        /\ pc[t] # "raised"
        /\ pc[t] = "returned" => NonEmptyDictOfLists(ProgramsOf(ret[t].obj))

\* a call whose fourth GET raised inside parse_xml_guide has returned the fallback
C3_Witness ==
    \E t \in Threads :
        /\ pc[t] = "returned"
        /\ ret[t].kind = "fallback"
        /\ outcome[t].kind = "doc"
        /\ ParsedSourceDocs[outcome[t].d].raised

\* every url was tried by the call of thread t and none was adopted
AllSourcesFailed(t) ==
    Len(tried[t]) = Len(urls) /\ \A i \in 1..Len(tried[t]) : ~tried[t][i].adopted

\* C4: when every source of a refresh fails or yields nothing, the call
\* returns a freshly generated fallback dict, not the cached one, and
\* leaves last_loaded and programs_cache as they were on entry; the cache
\* test of the next call therefore fails again.
C4_FallbackLeavesCacheAlone ==
    \A t \in Threads :
        (pc[t] = "returned" /\ AllSourcesFailed(t)) =>
            /\ ret[t].kind = "fallback"
            /\ ret[t].obj.oid # programs_cache.oid
            /\ programs_cache = entry[t].cache
            /\ last_loaded = entry[t].last_loaded
            /\ ~(/\ last_loaded.ok
                 /\ DOMAIN programs_cache.programs # {}
                 /\ DtDiffSeconds(NowAt(clock), last_loaded) < OneHour)

\* a refresh of an expired real guide failed on every source: the fallback
\* is returned and the expired guide is still cached
C4_Witness ==
    \E t \in Threads :
        /\ pc[t] = "returned"
        /\ AllSourcesFailed(t)
        /\ last_loaded.ok
        /\ DOMAIN programs_cache.programs # {}

\* the dict the latest GET of thread t parsed has a channel with a programme
YieldsSomeProgram(t) ==
    /\ outcome[t].kind = "doc"
    /\ ~ParsedSourceDocs[outcome[t].d].raised
    /\ \E lcn \in DOMAIN ParsedSourceDocs[outcome[t].d].programs :
           Len(ParsedSourceDocs[outcome[t].d].programs[lcn]) > 0

\* C5: a parsed document is adopted if and only if the parse yields at
\* least one channel that has at least one programme.
C5_AdoptedIffSomeProgram ==
    \A t \in Threads :
        Len(tried[t]) > 0 =>
            (tried[t][Len(tried[t])].adopted <=> YieldsSomeProgram(t))

\* every Program of the dict d stops after it starts
AllStopAfterStart(d) ==
    \A lcn \in DOMAIN d : \A k \in 1..Len(d[lcn]) : DtLess(d[lcn][k].start, d[lcn][k].stop)

\* C6: every Program in programs_cache or in a dict load_tv_guide returns
\* has stop > start.
C6_StopAfterStart ==
    /\ AllStopAfterStart(programs_cache.programs)
    /\ \A t \in Threads : pc[t] = "returned" => AllStopAfterStart(ProgramsOf(ret[t].obj))

\* the <lcn> of channel element ch is missing, empty or not an integer
MalformedChannel(ch) ==
    \/ ~ch.lcn.present
    \/ ~ch.lcn.text.some
    \/ ~IntOfStr(ch.lcn.text.s).ok

\* the channel elements of doc that declare id with an integer lcn
Declarations(doc, id) ==
    {j \in 1..Len(doc.channels) :
        doc.channels[j].id = id /\ ~MalformedChannel(doc.channels[j])}

\* programme i of doc names a declared channel and both its timestamps parse
Qualifies(doc, i) ==
    /\ Declarations(doc, doc.programmes[i].channel) # {}
    /\ parse_xmltv_time(doc.programmes[i].start).ok
    /\ parse_xmltv_time(doc.programmes[i].stop).ok

\* C8: a malformed channel entry drops only that channel: a document that
\* has one, beside a well-formed channel with a parseable programme, is
\* parsed without an exception and adopted.
C8_MalformedChannelOnlyDropped ==
    \A t \in Threads :
        (/\ outcome[t].kind = "doc"
         /\ \E j \in 1..Len(SourceDocs[outcome[t].d].channels) :
                MalformedChannel(SourceDocs[outcome[t].d].channels[j])
         /\ \E i \in 1..Len(SourceDocs[outcome[t].d].programmes) :
                Qualifies(SourceDocs[outcome[t].d], i))
        => /\ ~ParsedSourceDocs[outcome[t].d].raised
           /\ tried[t][Len(tried[t])].adopted

----------------------------------------------------------------------------
(* Properties of parse_xml_guide (specification SpecParse) *)

\* the LCN the last well-formed declaration of programme i's channel gives
LcnOf(doc, i) ==
    IntOfStr(doc.channels[MaxOrZero(Declarations(doc, doc.programmes[i].channel))].lcn.text.s).val

\* the places <<lcn, k>> of the output that hold programme i of the document
Places(out, i) ==
    {pl \in UNION {{<<lcn, k>> : k \in 1..Len(out[lcn])} : lcn \in DOMAIN out} :
        out[pl[1]][pl[2]].description = Txt(NumStr(i))}

\* the index in the document of the programme the Program p was built from
IndexOf(p) == CHOOSE i \in 1..(MaxProgs + 1) : p.description = Txt(NumStr(i))

\* C7: the output holds exactly the programmes that name a declared channel
\* with an integer LCN and whose start and stop both parse, each once and
\* under that LCN; every other programme is in no list, and no Program
\* kept has a null start or stop.
C7_ExactlyQualifyingProgrammes ==
    (parsed_out.done /\ ~parsed_out.result.raised) =>
        /\ \A i \in 1..Len(doc_in.programmes) :
               IF Qualifies(doc_in, i)
               THEN /\ Cardinality(Places(parsed_out.result.programs, i)) = 1
                    /\ \A pl \in Places(parsed_out.result.programs, i) :
                           pl[1] = LcnOf(doc_in, i)
               ELSE Places(parsed_out.result.programs, i) = {}
        /\ \A lcn \in DOMAIN parsed_out.result.programs :
           \A k \in 1..Len(parsed_out.result.programs[lcn]) :
               /\ parsed_out.result.programs[lcn][k].start.ok
               /\ parsed_out.result.programs[lcn][k].stop.ok
               /\ \E i \in 1..Len(doc_in.programmes) :
                      <<lcn, k>> \in Places(parsed_out.result.programs, i)

\* a document with a programme on an undeclared channel, one without a
\* start and one that is kept has been parsed
C7_Witness ==
    /\ parsed_out.done
    /\ ~parsed_out.result.raised
    /\ \E i, j, k \in 1..Len(doc_in.programmes) :
           /\ doc_in.programmes[i].channel = Txt("zz")
           /\ Declarations(doc_in, doc_in.programmes[j].channel) # {}
           /\ ~doc_in.programmes[j].start.some
           /\ Qualifies(doc_in, k)
           /\ Places(parsed_out.result.programs, k) # {}

\* C10: every list of the output is in non-decreasing order of start (as
\* datetime values compare), holds exactly the programmes kept for its
\* LCN, and keeps programmes of equal start in document order.
C10_SortedStablePermutation ==
    (parsed_out.done /\ ~parsed_out.result.raised) =>
        \A lcn \in DOMAIN parsed_out.result.programs :
            /\ \A k \in 1..(Len(parsed_out.result.programs[lcn]) - 1) :
                   ~DtLess(parsed_out.result.programs[lcn][k + 1].start,
                           parsed_out.result.programs[lcn][k].start)
            /\ {IndexOf(parsed_out.result.programs[lcn][k]) :
                    k \in 1..Len(parsed_out.result.programs[lcn])}
               = {i \in 1..Len(doc_in.programmes) :
                    Qualifies(doc_in, i) /\ LcnOf(doc_in, i) = lcn}
            /\ Len(parsed_out.result.programs[lcn])
               = Cardinality({i \in 1..Len(doc_in.programmes) :
                                 Qualifies(doc_in, i) /\ LcnOf(doc_in, i) = lcn})
            /\ \A k, l \in 1..Len(parsed_out.result.programs[lcn]) :
                   (/\ k < l
                    /\ parsed_out.result.programs[lcn][k].start.wall
                       = parsed_out.result.programs[lcn][l].start.wall)
                   => IndexOf(parsed_out.result.programs[lcn][k])
                      < IndexOf(parsed_out.result.programs[lcn][l])

\* a list of three: the first programme of the document starts last and
\* has moved behind two programmes of equal start, which kept their order
C10_Witness ==
    /\ parsed_out.done
    /\ ~parsed_out.result.raised
    /\ \E lcn \in DOMAIN parsed_out.result.programs :
           /\ Len(parsed_out.result.programs[lcn]) = 3
           /\ IndexOf(parsed_out.result.programs[lcn][3]) = 1
           /\ parsed_out.result.programs[lcn][1].start.wall
              = parsed_out.result.programs[lcn][2].start.wall
           /\ IndexOf(parsed_out.result.programs[lcn][1]) = 2

----------------------------------------------------------------------------
(* Properties of Program.progress (specification SpecProgress) *)

\* the value read is a number between 0 and 100
InRange(v) == v.den > 0 /\ 0 <= v.num /\ v.num <= 100 * v.den

\* C9 as stated: for every Program, also one whose stop is not after its
\* start, progress is defined and within 0..100, is 0 whenever now < start
\* and is 100 whenever now >= stop.
C9_ProgressAsStated ==
    progress_out.done =>
        /\ InRange(progress_out.value)
        /\ (DtLess(progress_out.now, prog_in.start) => progress_out.value.num = 0)
        /\ (~DtLess(progress_out.now, prog_in.stop) =>
                progress_out.value.num = 100 * progress_out.value.den)

\* C9, amended: for every Program, also one whose stop is not after its
\* start, progress is defined and within 0..100, is 0 whenever now < start
\* and is 100 whenever now >= stop and now >= start (the interpolation
\* never divides by zero).
C9_ProgressBounded ==
    progress_out.done =>
        /\ InRange(progress_out.value)
        /\ (DtLess(progress_out.now, prog_in.start) => progress_out.value.num = 0)
        /\ (/\ ~DtLess(progress_out.now, prog_in.stop)
            /\ ~DtLess(progress_out.now, prog_in.start))
            => progress_out.value.num = 100 * progress_out.value.den

\* progress of a Program whose stop is before its start was read at a
\* `now` between the two
C9_Witness ==
    /\ progress_out.done
    /\ DtLess(prog_in.stop, prog_in.start)
    /\ ~DtLess(progress_out.now, prog_in.stop)
    /\ DtLess(progress_out.now, prog_in.start)

----------------------------------------------------------------------------
(* Properties of generate_fallback_programs (specification SpecFallback) *)

\* the fixed fallback LCN set
FallbackLcns ==
    {2, 20, 21, 22, 23, 24, 3, 30, 31, 32, 33, 34, 35, 36, 5, 50, 51, 52, 53,
     54, 56, 6, 60, 62, 64, 65, 66, 67, 68, 8, 80, 81, 82, 83, 84, 85, 88}

\* the local hour boundary at or before the datetime dt, in local seconds
HourBoundary(dt) == dt.wall - (dt.wall % 3600)

\* the instant of the aware datetime dt, in seconds of UTC: what isoformat()
\* writes, local fields and offset, denotes this instant
Instant(dt) == dt.wall - dt.off

\* the time that passes between the instants of b and a
ElapsedSeconds(a, b) == Instant(a) - Instant(b)

\* the list of one channel: 12 programs from two hours before the hour
\* boundary of `now`, each lasting one hour from its start to its stop and
\* starting when the one before stops, slot i built from template
\* (lcn + i) mod 12
FallbackListAsClaimed(list, lcn, current) ==
    /\ Len(list) = 12
    /\ \A k \in 1..Len(list) :
           /\ list[k].start.ok /\ list[k].stop.ok
           /\ list[k].start.wall = HourBoundary(current) - 2 * 3600 + (k - 1) * 3600
           /\ ElapsedSeconds(list[k].stop, list[k].start) = 3600
           /\ (k < Len(list) => list[k + 1].start = list[k].stop)
           /\ list[k].title.s[3] = program_templates[((lcn + (k - 1)) % 12) + 1][1]
           /\ list[k].description.s[1] = program_templates[((lcn + (k - 1)) % 12) + 1][2]
           /\ list[k].category.s[1] = program_templates[((lcn + (k - 1)) % 12) + 1][3]

\* C11: at every current time generate_fallback_programs returns a dict
\* whose keys are exactly the fixed fallback LCNs, each with 12 programs:
\* program i starts at the current hour boundary - 2 hours + i hours, lasts
\* exactly one hour from the instant of its start to the instant of its
\* stop, the next starts when it stops, and it is built from template
\* (lcn + i) mod 12.
C11_FallbackShape ==
    fb_out.done =>
        /\ DOMAIN fb_out.programs = FallbackLcns
        /\ \A lcn \in DOMAIN fb_out.programs :
               FallbackListAsClaimed(fb_out.programs[lcn], lcn, fb_now)

----------------------------------------------------------------------------
(* Properties of parse_xmltv_time (specification SpecTime) *)

\* the number written by the n digits of s from position a
Field(s, a, n) == DecVal(SubSeq(s, a, a + n - 1))

\* s begins with 14 digits that are a date and a time of day
StartsWithDateTime(s) ==
    /\ Len(s) >= 14
    /\ AllDigits(SubSeq(s, 1, 14))
    /\ Field(s, 1, 4) >= 1
    /\ Field(s, 5, 2) \in 1..12
    /\ Field(s, 7, 2) \in 1..DaysInMonth(Field(s, 1, 4), Field(s, 5, 2))
    /\ Field(s, 9, 2) <= 23 /\ Field(s, 11, 2) <= 59 /\ Field(s, 13, 2) <= 59

\* z is a UTC offset: a sign and HHMM
IsOffset(z) ==
    /\ Len(z) = 5
    /\ z[1] \in {"+", "-"}
    /\ AllDigits(Tail(z))
    /\ Field(z, 2, 2) <= 23 /\ Field(z, 4, 2) <= 59

\* the layout of the string: "local" (14 digits), "spaced" (14 digits, a
\* space, an offset), "concatenated" (14 digits, an offset), or "malformed"
LayoutOf(str) ==
    IF ~str.some \/ ~StartsWithDateTime(str.s) THEN "malformed"
    ELSE IF Len(str.s) = 14 THEN "local"
    ELSE IF Len(str.s) = 20 /\ str.s[15] = " " /\ IsOffset(SubSeq(str.s, 16, 20))
    THEN "spaced"
    ELSE IF Len(str.s) = 19 /\ IsOffset(SubSeq(str.s, 15, 19)) THEN "concatenated"
    ELSE "malformed"

\* the 14 digits read as a date-time, in seconds
WrittenDateTime(s) ==
    NaiveSecs(Field(s, 1, 4), Field(s, 5, 2), Field(s, 7, 2),
              Field(s, 9, 2), Field(s, 11, 2), Field(s, 13, 2))

\* the offset written at the end of s, in seconds
WrittenOffset(s) ==
    (IF s[Len(s) - 4] = "-" THEN -1 ELSE 1)
    * (Field(s, Len(s) - 3, 2) * 3600 + Field(s, Len(s) - 1, 2) * 60)

\* the result of parsing a well-formed string is the instant, or the
\* local time, the string writes
ParsedAsWritten(str, value) ==
    /\ value.ok
    /\ IF LayoutOf(str) = "local"
       THEN value.wall = WrittenDateTime(str.s)
       ELSE value.wall - value.off = WrittenDateTime(str.s) - WrittenOffset(str.s)

\* C12: a 14-digit date-time with an explicit offset, space-separated or
\* concatenated, positive or negative, parses to the instant it writes in
\* that offset; one without offset parses as local time of the reference
\* zone; every malformed string parses to None; so a programme from 06:00
\* to 07:00 in one offset lasts 60 minutes.
C12_ParsesAsWrittenOrNone ==
    /\ time_out.done =>
           IF LayoutOf(time_in) = "malformed" THEN ~time_out.value.ok
           ELSE ParsedAsWritten(time_in, time_out.value)
    /\ duration_minutes(Program(NoStr, NoStr, NoStr,
                                parse_xmltv_time(TSpace(6)), parse_xmltv_time(TSpace(7)))) = 60
    /\ duration_minutes(Program(NoStr, NoStr, NoStr,
                                parse_xmltv_time(TConcat(6)), parse_xmltv_time(TConcat(7)))) = 60

----------------------------------------------------------------------------
(* Properties of the API handlers (specification SpecApi) *)

\* the LCNs of the channel directory
DirectoryLcns == {n \in 0..307 : PyInt(n) \in DOMAIN channels}

\* C13: /api/stream-status/<lcn> answers every LCN of the channel
\* directory with the status object of that channel, and answers 404 only
\* for an LCN that is not in the directory.
C13_StatusForDirectoryLcns ==
    \A t \in Threads :
        api_req[t].handler = "get_stream_status" =>
            IF api_req[t].lcn \in DirectoryLcns
            THEN /\ api_resp[t].status = 200
                 /\ api_resp[t].lcn = api_req[t].lcn
                 /\ api_resp[t].name = channels[PyInt(api_req[t].lcn)].name
                 /\ api_resp[t].available
                 /\ api_resp[t].stream = channels[PyInt(api_req[t].lcn)].stream
                 /\ api_resp[t].isAudioOnly = channels[PyInt(api_req[t].lcn)].isAudioOnly
            ELSE api_resp[t].status = 404

\* the ids of the static relay mapping
RelayLcns == {25, 26, 27, 28, 29, 200, 201, 202, 203, 204}

\* C14: stream_proxy answers an id that is not in the relay mapping with
\* 404 and calls requests.get for it never; for a mapped id it calls
\* requests.get exactly once, with the mapped url, and answers 200 or 503
\* once that call is over.
C14_UpstreamOnlyForMappedIds ==
    \A t \in Threads :
        api_req[t].handler = "stream_proxy" =>
            IF api_req[t].lcn \in RelayLcns
            THEN /\ Len(upstream[t]) = 1
                 /\ upstream[t][1] = audio_streams[PyInt(api_req[t].lcn)]
                 /\ api_resp[t].status \in {0, 200, 503}
                 /\ api_resp[t].status = 0 <=> InUpstream(t)
            ELSE /\ api_resp[t].status = 404
                 /\ upstream[t] = <<>>

\* the proxy was asked for an audio channel of the directory that has no
\* relay and answered 404 without an upstream request, while another
\* thread was waiting for the upstream of a mapped id
C14_Witness ==
    \E t \in Threads : \E u \in Threads \ {t} :
        /\ api_req[t].handler = "stream_proxy"
        /\ api_req[t].lcn = 301
        /\ api_resp[t].status = 404
        /\ upstream[t] = <<>>
        /\ InUpstream(u)
        /\ upstream[u] = <<audio_streams[PyInt(api_req[u].lcn)]>>

----------------------------------------------------------------------------
(* Properties of Program.to_dict (specification SpecToDict) *)

\* C18: the derived fields of one serialized program agree as if computed
\* at one instant: isLive implies 0 <= progress < 100, not isLive implies
\* remainingMins = 0, and 0 <= remainingMins <= durationMins.
C18_DerivedFieldsConsistent ==
    td_out.done =>
        /\ td_out.isLive =>
               /\ td_out.progress.den > 0
               /\ 0 <= td_out.progress.num
               /\ td_out.progress.num < 100 * td_out.progress.den
        /\ ~td_out.isLive => td_out.remainingMins = 0
        /\ 0 <= td_out.remainingMins
        /\ td_out.remainingMins <= td_out.durationMins

----------------------------------------------------------------------------
(* Properties of concurrent requests (specification SpecConc) *)

\* parse_xml_guide of each document of a concurrent run
ParsedConcDocs == [d \in 1..Len(ConcDocs) |-> parse_xml_guide(ConcDocs[d])]

\* the dict object obj refers to is the finished result of parse_xml_guide
\* and holds what it held when the reference was taken
CompleteMapping(obj) ==
    /\ heap[obj.oid].complete
    /\ heap[obj.oid].programs = obj.programs
    /\ obj.programs = ParsedConcDocs[heap[obj.oid].d].programs

\* C15: programs_cache, and every dict a caller of load_tv_guide was handed,
\* is a complete parsed mapping that has not changed since it was published;
\* the dict a parse is still populating or sorting is referred to by no one
\* but that parse; and what /api/tv-guide serializes is a complete mapping.
C15_PublishedMappingsAreComplete ==
    /\ programs_cache.oid # 0 => CompleteMapping(programs_cache)
    /\ \A t \in Threads :
        /\ building[t].active =>
              /\ building[t].oid # programs_cache.oid
              /\ \A u \in Threads : ret[u].obj.oid # building[t].oid
        /\ ret[t].kind \in {"cached", "parsed"} => CompleteMapping(ret[t].obj)
        /\ (served[t].done /\ served[t].kind # "fallback") =>
              /\ served[t].content.complete
              /\ served[t].content.programs =
                     ParsedConcDocs[served[t].content.d].programs

\* a response of /api/tv-guide was serialized from the dict programs_cache
\* refers to while another thread was in the middle of populating its own
C15_Witness ==
    \E t \in Threads : \E u \in Threads \ {t} :
        /\ served[t].done
        /\ served[t].kind \in {"cached", "parsed"}
        /\ served[t].oid = programs_cache.oid
        /\ building[u].active
        /\ building[u].i > 1
        /\ heap[building[u].oid].programs # ParsedConcDocs[building[u].d].programs

\* C16: last_loaded is None exactly when programs_cache is empty, it is the
\* `now` of the call that built the dict programs_cache refers to, and
\* /api/health never reports cached_channels > 0 with a null
\* tv_guide_last_loaded.
C16_CacheAndStampConsistent ==
    /\ (~last_loaded.ok) <=> (programs_cache.oid = 0)
    /\ programs_cache.oid # 0 => last_loaded = heap[programs_cache.oid].stamp
    /\ health.pc = "done" =>
           ~(health.cached_channels > 0 /\ ~health.tv_guide_last_loaded.ok)

\* C17: no step moves last_loaded to an earlier time, and no step replaces
\* the cached dict by one built by a call that started earlier.
C17_LastLoadedNeverMovesBack ==
    [][/\ last_loaded.ok => (last_loaded'.ok /\ ~DtLess(last_loaded', last_loaded))
       /\ (programs_cache.oid # 0 /\ programs_cache'.oid # programs_cache.oid) =>
              ~DtLess(heap'[programs_cache'.oid].stamp,
                      heap[programs_cache.oid].stamp)]_vars

=============================================================================
